---- MODULE Spec2Model ----
(***************************************************************************)
(* Verification model of the Crawl4AI MCP server's upstream invocation     *)
(* bridge: the retrying adapter (executeRequest and its public methods),   *)
(* the simplified adapter (apiRequest), the error classifier               *)
(* (transformError / formatErrorForMCP), the content normalizer            *)
(* (formatContent) and the handler factory (createHandler).                *)
(***************************************************************************)
EXTENDS Integers, Sequences, FiniteSets, TLC

VARIABLES
    inv,        \* retrying adapter: one record per invocation slot
    cache,      \* retrying adapter: this.cache, a map cacheKey -> response data
    cacheOps,   \* history: operations on whose behalf the cache was read or written
    calls,      \* history: number of public-method calls started so far
    npayload,   \* normalizer: the payload handed to formatContent
    nresult,    \* normalizer: what formatContent did with it
    cls,        \* classifier: a thrown value, its context, and what transformError made of it
    hnd,        \* handler factory: one invocation of a handler built by createHandler
    ck,         \* cache keys: two option bags and the keys a public method builds for them
    srv,        \* server: request scopes sharing the module-level adapter
    tp,         \* transcoder: a parameter bag and what transformParams makes of it
    th          \* typed handler: the caller's parameter object around createTypedHandler

execVars == <<inv, cache, cacheOps, calls>>

normVars == <<npayload, nresult>>

auxVars == <<ck, srv, tp, th>>

vars == <<inv, cache, cacheOps, calls, npayload, nresult, cls, hnd, ck, srv, tp, th>>

(***************************************************************************)
(* Bounds of the model.                                                    *)
(***************************************************************************)
MaxCalls == 2

Invocations == {"i1", "i2"}

Args == {"u1", "u2"}

OptionBags == { <<>> }

HttpStatuses == {400, 401, 429, 500, 501}

\* response.data of a successful call whose body is empty: null.
NullBody == "null"

ResponseBodies == {"p1", NullBody}

(***************************************************************************)
(* DEFAULT_RETRY_CONFIG of the retrying adapter.                           *)
(***************************************************************************)
maxRetries == 3

initialDelayMs == 1000

maxDelayMs == 10000

backoffFactor == 2

RECURSIVE Pow(_, _)
Pow(b, e) == IF e = 0 THEN 1 ELSE b * Pow(b, e - 1)

Min(a, b) == IF a <= b THEN a ELSE b

(***************************************************************************)
(* Crawl4AIError of the retrying adapter and the response interceptor      *)
(* that classifies every failed HTTP attempt.                              *)
(***************************************************************************)
Crawl4AIError(message, type, statusCode, retryable) ==
    [name |-> "Crawl4AIError", message |-> message, type |-> type,
     statusCode |-> statusCode, retryable |-> retryable]

NoError == [name |-> "none", message |-> "", type |-> "none",
            statusCode |-> 0, retryable |-> FALSE]

\* A failed attempt as axios reports it: with or without error.response.
HttpFailures ==
    {[response |-> FALSE, status |-> 0]} \cup
    {[response |-> TRUE, status |-> s] : s \in HttpStatuses}

AxiosMessage(f) ==
    IF f.response THEN "Request failed with status code " \o ToString(f.status)
    ELSE "Network Error"

Interceptor(f) ==
    IF ~f.response
    THEN Crawl4AIError("Network error: Unable to connect to the Crawl4AI API",
                       "network", 0, TRUE)
    ELSE CASE f.status \in {401, 403} ->
                Crawl4AIError("Authentication error: Invalid or expired API key",
                              "authentication", f.status, FALSE)
           [] f.status = 429 ->
                Crawl4AIError("Rate limit exceeded: Too many requests",
                              "rate_limit", f.status, TRUE)
           [] f.status \in {400, 422} ->
                Crawl4AIError("Client error: " \o AxiosMessage(f),
                              "client", f.status, FALSE)
           [] f.status \in {500, 502, 503, 504} ->
                Crawl4AIError("Server error: " \o AxiosMessage(f),
                              "server", f.status, TRUE)
           [] OTHER ->
                Crawl4AIError(AxiosMessage(f), "unknown", f.status, FALSE)

(***************************************************************************)
(* The public methods of the retrying adapter: HTTP method, cache key and  *)
(* error context each passes to executeRequest / transformError.           *)
(***************************************************************************)
Operations == {"scrape", "deepResearch", "mapUrls", "crawl",
               "checkCrawlStatus", "extract"}

NoKey == ""

MethodOf(op) == IF op = "checkCrawlStatus" THEN "GET" ELSE "POST"

RECURSIVE StringifyPairs(_)
StringifyPairs(opts) ==
    IF opts = <<>> THEN ""
    ELSE "\"" \o opts[1][1] \o "\":\"" \o opts[1][2] \o "\"" \o
         (IF Len(opts) > 1 THEN "," ELSE "") \o StringifyPairs(Tail(opts))

\* JSON.stringify of an options object; keys come out in insertion order.
JsonStringifyOptions(opts) == "{" \o StringifyPairs(opts) \o "}"

\* Array.prototype.join
RECURSIVE JoinStrings(_, _)
JoinStrings(strs, sep) ==
    IF strs = <<>> THEN ""
    ELSE IF Len(strs) = 1 THEN strs[1]
    ELSE strs[1] \o sep \o JoinStrings(Tail(strs), sep)

\* `extract:${urls.join(',')}:${JSON.stringify(options)}`
ExtractCacheKey(urls, opts) ==
    "extract:" \o JoinStrings(urls, ",") \o ":" \o JsonStringifyOptions(opts)

\* The key a public method builds; arg is its url (for extract, its one url).
CacheKeyOf(op, arg, opts) ==
    CASE op = "scrape"  -> "scrape:" \o arg \o ":" \o JsonStringifyOptions(opts)
      [] op = "mapUrls" -> "map:" \o arg \o ":" \o JsonStringifyOptions(opts)
      [] op = "extract" -> ExtractCacheKey(<<arg>>, opts)
      [] OTHER -> NoKey

ErrorContextOf(op) ==
    CASE op = "scrape" -> "scrape"
      [] op = "deepResearch" -> "deep research"
      [] op = "mapUrls" -> "URL mapping"
      [] op = "crawl" -> "crawl"
      [] op = "checkCrawlStatus" -> "status check"
      [] OTHER -> "extraction"

\* Crawl4AIAdapter.transformError of the retrying adapter (a message string).
AdapterErrorMessage(error, context) ==
    IF error.name = "Crawl4AIError"
    THEN context \o " error (" \o error.type \o "): " \o error.message
    ELSE context \o " error: " \o error.message

PlainError(message) ==
    [name |-> "Error", message |-> message, type |-> "none",
     statusCode |-> 0, retryable |-> FALSE]

\* Upstream response data, and the structured failure deepResearch resolves to.
Body(v) == [t |-> "body", v |-> v, query |-> ""]

ResearchFailure(query, msg) == [t |-> "research_failure", v |-> msg, query |-> query]

NoResult == [t |-> "none", v |-> "", query |-> ""]

(***************************************************************************)
(* JSON values as the bridge sees them.  An object is its list of          *)
(* <<key, value>> pairs in insertion order.                                *)
(***************************************************************************)
JNull == [t |-> "null"]

JUndef == [t |-> "undefined"]

JBool(b) == [t |-> "bool", b |-> b]

JNum(n) == [t |-> "num", n |-> n]

JStr(s) == [t |-> "str", s |-> s]

JArr(a) == [t |-> "arr", a |-> a]

JObj(o) == [t |-> "obj", o |-> o]

\* JavaScript truthiness.
Truthy(v) ==
    CASE v.t \in {"null", "undefined"} -> FALSE
      [] v.t = "bool" -> v.b
      [] v.t = "num" -> v.n # 0
      [] v.t = "str" -> v.s # ""
      [] OTHER -> TRUE

\* typeof v === 'object' (null included, as in JavaScript).
TypeofObject(v) == v.t \in {"obj", "arr", "null"}

IsNullish(v) == v.t \in {"null", "undefined"}

\* key in v, for an object or an array v.
HasKey(v, k) == v.t = "obj" /\ \E i \in 1..Len(v.o) : v.o[i][1] = k

\* v.k for a non-nullish v: undefined unless v is an object with that key.
Get(v, k) ==
    IF HasKey(v, k)
    THEN v.o[CHOOSE i \in 1..Len(v.o) :
                 v.o[i][1] = k /\ \A j \in (i + 1)..Len(v.o) : v.o[j][1] # k][2]
    ELSE JUndef

\* a || b
OrElse(a, b) == IF Truthy(a) THEN a ELSE b

\* String(v), as a template literal renders v.
RECURSIVE ToStr(_)
ToStr(v) ==
    CASE v.t = "null" -> "null"
      [] v.t = "undefined" -> "undefined"
      [] v.t = "bool" -> IF v.b THEN "true" ELSE "false"
      [] v.t = "num" -> ToString(v.n)
      [] v.t = "str" -> v.s
      [] v.t = "arr" ->
            JoinStrings([i \in 1..Len(v.a) |->
                            IF IsNullish(v.a[i]) THEN "" ELSE ToStr(v.a[i])], ",")
      [] OTHER -> "[object Object]"

\* JSON.stringify(v, null, 2), at the indentation ind.
RECURSIVE JsonPretty(_, _)
JsonPretty(v, ind) ==
    CASE v.t \in {"null", "undefined"} -> "null"
      [] v.t = "bool" -> IF v.b THEN "true" ELSE "false"
      [] v.t = "num" -> ToString(v.n)
      [] v.t = "str" -> "\"" \o v.s \o "\""
      [] v.t = "arr" ->
            IF v.a = <<>> THEN "[]"
            ELSE "[\n" \o
                 JoinStrings([i \in 1..Len(v.a) |->
                                 ind \o "  " \o JsonPretty(v.a[i], ind \o "  ")], ",\n")
                 \o "\n" \o ind \o "]"
      [] OTHER ->
            LET kept == SelectSeq(v.o, LAMBDA kv : kv[2].t # "undefined")
            IN IF kept = <<>> THEN "{}"
               ELSE "{\n" \o
                    JoinStrings([i \in 1..Len(kept) |->
                                    ind \o "  \"" \o kept[i][1] \o "\": " \o
                                    JsonPretty(kept[i][2], ind \o "  ")], ",\n")
                    \o "\n" \o ind \o "}"

(***************************************************************************)
(* formatContent and its chain of shape handlers.  Every handler yields    *)
(* [threw, blocks]: the blocks it returns, or the fact that it threw a     *)
(* TypeError.                                                              *)
(***************************************************************************)
MCPContent(type, text) == JObj(<< <<"type", JStr(type)>>, <<"text", text>> >>)

Returns(blocks) == [threw |-> FALSE, blocks |-> blocks]

Throws == [threw |-> TRUE, blocks |-> <<>>]

Plural(n) == IF n = 1 THEN "" ELSE "s"

\* content.every(item => 'type' in item && 'text' in item): the `in` operator
\* throws on a primitive or null item; every stops at the first false.
RECURSIVE EveryMcp(_)
EveryMcp(a) ==
    IF a = <<>> THEN "true"
    ELSE IF a[1].t \notin {"obj", "arr"} THEN "throw"
    ELSE IF HasKey(a[1], "type") /\ HasKey(a[1], "text") THEN EveryMcp(Tail(a))
    ELSE "false"

handleResearchResults(content) ==
    LET results == Get(content, "results")
        summary == Get(results, "summary")
        sources == Get(results, "sources")
        line(s) == IF s.t = "str" THEN "- " \o s.s
                   ELSE "- " \o (IF Truthy(Get(s, "url")) THEN ToStr(Get(s, "url")) ELSE "")
                             \o (IF Truthy(Get(s, "title"))
                                 THEN ": " \o ToStr(Get(s, "title")) ELSE "")
    IN IF ~Truthy(results) THEN Returns(<<>>)
       ELSE IF results.t = "str" THEN Returns(<<MCPContent("text", results)>>)
       ELSE IF ~Truthy(summary) THEN Returns(<<>>)
       ELSE IF Truthy(sources) /\ sources.t = "arr"
       THEN IF \E i \in 1..Len(sources.a) : IsNullish(sources.a[i])
            THEN Throws
            ELSE LET sourcesList ==
                         JoinStrings([i \in 1..Len(sources.a) |-> line(sources.a[i])], "\n")
                 IN IF sourcesList # ""
                    THEN Returns(<<MCPContent("text", summary),
                                   MCPContent("text", JStr("\nSources:\n" \o sourcesList))>>)
                    ELSE Returns(<<MCPContent("text", summary)>>)
       ELSE Returns(<<MCPContent("text", summary)>>)

handleUrlMapping(content) ==
    LET urls == Get(content, "urls")
    IN IF ~Truthy(urls) \/ urls.t # "arr" THEN Returns(<<>>)
       ELSE LET urlCount == Len(urls.a)
                urlList == JoinStrings([i \in 1..urlCount |-> "- " \o ToStr(urls.a[i])], "\n")
            IN Returns(<<MCPContent("text",
                   JStr(ToString(urlCount) \o " URL" \o Plural(urlCount)
                        \o " discovered:\n" \o urlList))>>)

handleSearchResults(content) ==
    LET results == Get(content, "results")
        searchQuery == IF Get(content, "query").t = "undefined" THEN ""
                       ELSE ToStr(Get(content, "query"))
        item(result, index) ==
            LET url == IF Get(result, "url").t = "undefined" THEN JStr("")
                       ELSE Get(result, "url")
                title == OrElse(Get(result, "title"),
                                OrElse(url, JStr("Result " \o ToString(index))))
                snippet == OrElse(Get(result, "snippet"),
                                  OrElse(Get(result, "description"), JStr("")))
            IN ToString(index) \o ". **" \o ToStr(title) \o "**\n   " \o ToStr(url)
               \o "\n   " \o ToStr(snippet) \o "\n"
    IN IF ~Truthy(results) \/ results.t # "arr" THEN Returns(<<>>)
       ELSE IF \E i \in 1..Len(results.a) : IsNullish(results.a[i]) THEN Throws
       ELSE LET resultCount == Len(results.a)
                header == ToString(resultCount) \o " result" \o Plural(resultCount)
                          \o " for \"" \o searchQuery \o "\":\n\n"
            IN Returns(<<MCPContent("text",
                   JStr(header \o JoinStrings([i \in 1..resultCount |->
                                                  item(results.a[i], i)], "\n")))>>)

handleCrawlStatus(content) ==
    LET id == Get(content, "id")
        status == Get(content, "status")
        progress == IF Get(content, "progress").t # "undefined"
                    THEN ToStr(Get(content, "progress")) \o "%" ELSE "unknown"
        statusText ==
            "Crawl Job: " \o ToStr(id) \o "\nStatus: " \o ToStr(status)
            \o "\nProgress: " \o progress
            \o (IF Get(content, "urls_count").t # "undefined"
                THEN "\nURLs Crawled: " \o ToStr(Get(content, "urls_count")) ELSE "")
            \o (IF Get(content, "errors_count").t # "undefined"
                THEN "\nErrors: " \o ToStr(Get(content, "errors_count")) ELSE "")
        urls == Get(content, "urls")
        errors == Get(content, "errors")
        hasUrls == Truthy(urls) /\ urls.t = "arr" /\ Len(urls.a) > 0
        hasErrors == Truthy(errors) /\ errors.t = "arr" /\ Len(errors.a) > 0
        urlPart == IF hasUrls
                   THEN <<MCPContent("text", JStr("\nCrawled URLs:\n" \o
                            JoinStrings([i \in 1..Len(urls.a) |->
                                            "- " \o ToStr(urls.a[i])], "\n")))>>
                   ELSE <<>>
        errLine(e) == "- " \o ToStr(OrElse(Get(e, "url"), JStr(""))) \o ": " \o
                      ToStr(OrElse(Get(e, "message"),
                                   OrElse(Get(e, "error"), JStr("Unknown error"))))
        errPart == IF hasErrors
                   THEN <<MCPContent("text", JStr("\nErrors:\n" \o
                            JoinStrings([i \in 1..Len(errors.a) |->
                                            errLine(errors.a[i])], "\n")))>>
                   ELSE <<>>
    IN IF ~Truthy(id) \/ status.t = "undefined" THEN Returns(<<>>)
       ELSE IF hasErrors /\ \E i \in 1..Len(errors.a) : IsNullish(errors.a[i]) THEN Throws
       ELSE Returns(<<MCPContent("text", JStr(statusText))>> \o urlPart \o errPart)

handleScrapeResults(content) ==
    LET formats == Get(content, "formats")
        main == IF Truthy(Get(formats, "markdown"))
                THEN <<MCPContent("text", Get(formats, "markdown"))>>
                ELSE IF Truthy(Get(formats, "html"))
                THEN <<MCPContent("html", Get(formats, "html"))>>
                ELSE IF Truthy(Get(formats, "rawHtml"))
                THEN <<MCPContent("html", Get(formats, "rawHtml"))>>
                ELSE <<>>
        shot == IF Truthy(Get(formats, "screenshot"))
                THEN <<MCPContent("image", Get(formats, "screenshot"))>> ELSE <<>>
        links == Get(formats, "links")
        hasLinks == Truthy(links) /\ links.t = "arr" /\ Len(links.a) > 0
        linkLine(link) ==
            "- " \o (IF link.t = "str" THEN link.s
                     ELSE ToStr(OrElse(Get(link, "url"), JStr(""))))
                 \o (IF Truthy(Get(link, "text"))
                     THEN ": " \o ToStr(Get(link, "text")) ELSE "")
        linkPart == IF hasLinks
                    THEN <<MCPContent("text",
                             JStr("\n" \o ToString(Len(links.a)) \o " link"
                                  \o Plural(Len(links.a)) \o " found:\n" \o
                                  JoinStrings([i \in 1..Len(links.a) |->
                                                  linkLine(links.a[i])], "\n")))>>
                    ELSE <<>>
    IN IF Truthy(formats) /\ TypeofObject(formats)
       THEN IF hasLinks /\ \E i \in 1..Len(links.a) : IsNullish(links.a[i]) THEN Throws
            ELSE Returns(main \o shot \o linkPart)
       ELSE Returns(<<>>)

handleFormatProperties(content) ==
    IF Truthy(Get(content, "markdown"))
    THEN Returns(<<MCPContent("text", Get(content, "markdown"))>>)
    ELSE IF Truthy(Get(content, "html"))
    THEN Returns(<<MCPContent("html", Get(content, "html"))>>)
    ELSE IF Truthy(Get(content, "text"))
    THEN Returns(<<MCPContent("text", Get(content, "text"))>>)
    ELSE IF Truthy(Get(content, "extracted")) /\ TypeofObject(Get(content, "extracted"))
    THEN Returns(<<MCPContent("json", JStr(JsonPretty(Get(content, "extracted"), "")))>>)
    ELSE Returns(<<>>)

\* The handlers array of formatContent, in its order.
\* The handlers array in the opposite order.
HandlerOrderStatusFirst == <<"research", "status", "urls", "search", "scrape", "props">>

HandlerOrderReversed == <<"props", "scrape", "status", "search", "urls", "research">>

HandlerOrder == <<"research", "urls", "search", "status", "scrape", "props">>

RunHandler(name, content) ==
    CASE name = "research" -> handleResearchResults(content)
      [] name = "urls" -> handleUrlMapping(content)
      [] name = "search" -> handleSearchResults(content)
      [] name = "status" -> handleCrawlStatus(content)
      [] name = "scrape" -> handleScrapeResults(content)
      [] OTHER -> handleFormatProperties(content)

\* The loop over the handlers: the first one that throws or returns blocks.
RECURSIVE TryHandlers(_, _)
TryHandlers(names, content) ==
    IF names = <<>>
    THEN Returns(<<MCPContent("json", JStr(JsonPretty(content, "")))>>)
    ELSE LET result == RunHandler(names[1], content)
         IN IF result.threw \/ Len(result.blocks) > 0 THEN result
            ELSE TryHandlers(Tail(names), content)

formatContent(content) ==
    IF content.t = "arr" /\ EveryMcp(content.a) = "throw" THEN Throws
    ELSE IF content.t = "arr" /\ EveryMcp(content.a) = "true" THEN Returns(content.a)
    ELSE IF IsNullish(content)
    THEN Returns(<<MCPContent("text", JStr("No content returned."))>>)
    ELSE IF content.t = "str" THEN Returns(<<MCPContent("text", content)>>)
    ELSE IF ~TypeofObject(content)
    THEN Returns(<<MCPContent("text", JStr(ToStr(content)))>>)
    ELSE TryHandlers(HandlerOrder, content)

(***************************************************************************)
(* Upstream payloads: primitives, arrays, and objects that carry up to     *)
(* MaxGroups of the recognised field groups, with expected and unexpected  *)
(* value types.                                                            *)
(***************************************************************************)
MaxGroups == 2

Obj1(k, v) == JObj(<< <<k, v>> >>)

Obj2(k1, v1, k2, v2) == JObj(<< <<k1, v1>>, <<k2, v2>> >>)

SearchItem == JObj(<< <<"url", JStr("https://a.com")>>, <<"title", JStr("A")>>,
                      <<"snippet", JStr("about a")>> >>)

PrimitivePayloads ==
    {JNull, JUndef, JStr(""), JStr("plain text"), JNum(0), JNum(7),
     JBool(TRUE), JBool(FALSE)}

ArrayItems ==
    {JNull, JNum(7), JStr("abc"), MCPContent("text", JStr("hi")),
     Obj1("type", JStr("text")), JObj(<<>>)}

ArrayPayloads ==
    {JArr(<<>>)} \cup {JArr(<<a>>) : a \in ArrayItems}
                 \cup {JArr(<<a, b>>) : a \in ArrayItems, b \in ArrayItems}

ResultsOpts ==
    { <<>> } \cup
    { << <<"results", v>> >> : v \in
        {JStr("the answer"), JStr(""), JNum(5),
         Obj1("summary", JStr("S")),
         Obj2("summary", JStr("S"), "sources",
              JArr(<<JStr("https://s1"),
                     Obj2("url", JStr("https://s2"), "title", JStr("T2"))>>)),
         Obj2("summary", JStr("S"), "sources", JArr(<<JNull>>)),
         Obj2("summary", JStr("S"), "sources", JArr(<<>>)),
         JArr(<<SearchItem, Obj1("description", JStr("d"))>>),
         JArr(<<JNull>>), JArr(<<JStr("r")>>), JArr(<<>>)} }

UrlsOpts ==
    { <<>> } \cup
    { << <<"urls", v>> >> : v \in
        {JArr(<<>>), JArr(<<JStr("https://a.com"), JStr("https://b.com")>>),
         JArr(<<JNull, JNum(3)>>), JStr("https://a.com")} }

StatusOpts ==
    { <<>>,
      << <<"id", JStr("job1")>> >>,
      << <<"status", JStr("running")>> >>,
      << <<"id", JStr("job1")>>, <<"status", JStr("running")>> >>,
      << <<"id", JStr("job1")>>, <<"status", JStr("done")>>, <<"progress", JNum(100)>>,
         <<"urls_count", JNum(2)>>, <<"errors_count", JNum(0)>> >> }

ErrorsOpts ==
    { <<>> } \cup
    { << <<"errors", v>> >> : v \in
        {JArr(<<Obj2("url", JStr("https://a.com"), "message", JStr("boom")),
                Obj1("error", JStr("E"))>>),
         JArr(<<JNull>>), JStr("bad")} }

FormatsOpts ==
    { <<>> } \cup
    { << <<"formats", v>> >> : v \in
        {Obj1("markdown", JStr("# Hi")), Obj1("html", JStr("<p>x</p>")),
         Obj1("rawHtml", JStr("<html/>")),
         JObj(<< <<"markdown", JStr("# Hi")>>, <<"screenshot", JStr("b64")>>,
                 <<"links", JArr(<<JStr("https://l1"),
                                   Obj2("url", JStr("https://l2"), "text", JStr("L2"))>>)>> >>),
         Obj1("links", JArr(<<JNull>>)), JObj(<<>>), JArr(<<>>), JStr("markdown")} }

FlatOpts ==
    { <<>>,
      << <<"markdown", JStr("# Flat")>> >>,
      << <<"html", JStr("<b>flat</b>")>> >>,
      << <<"text", JStr("flat text")>> >>,
      << <<"extracted", Obj1("price", JNum(3))>> >>,
      << <<"extracted", JStr("raw")>> >>,
      << <<"foo", JNum(1)>>, <<"bar", Obj1("baz", JNum(2))>> >> }

Some(x) == IF x = <<>> THEN 0 ELSE 1

ObjectPayloads ==
    {JObj(r \o u \o st \o e \o f \o p) :
        <<r, u, st, e, f, p>> \in
            {c \in ResultsOpts \X UrlsOpts \X StatusOpts \X ErrorsOpts \X FormatsOpts \X FlatOpts :
                Some(c[1]) + Some(c[2]) + Some(c[3]) + Some(c[4]) + Some(c[5]) + Some(c[6])
                    <= MaxGroups}}

Payloads == PrimitivePayloads \cup ArrayPayloads \cup ObjectPayloads

(***************************************************************************)
(* Thrown values as the classifier sees them.  kind tells an Error         *)
(* instance ("Error") from a plain object ("object") and from a thrown     *)
(* string ("string"); response and request say whether the property is     *)
(* present; a code of "" is an absent code.                                *)
(***************************************************************************)
ThrownValue(kind, message, isAxiosError, response, status, data, request, code) ==
    [kind |-> kind, message |-> message, isAxiosError |-> isAxiosError,
     response |-> response, status |-> status, data |-> data,
     request |-> request, code |-> code]

\* new Error(message), and new Crawl4AIError(message, ...), which extends Error.
ErrorOf(message) == ThrownValue("Error", message, FALSE, FALSE, 0, JUndef, FALSE, "")

\* s.includes(sub)
Includes(s, sub) ==
    \E i \in 1..(Len(s) - Len(sub) + 1) : SubSeq(s, i, i + Len(sub) - 1) = sub

\* error.stack
StackOf(error) == "Error: " \o error.message \o "\n    at <anonymous>"

\* String(error) for a thrown value.
StringOf(error) ==
    CASE error.kind = "string" -> error.message
      [] error.kind = "Error" -> "Error: " \o error.message
      [] OTHER -> "[object Object]"

\* The details field: absent, a text that is not JSON, or JSON.stringify(v).
NoDetails == [kind |-> "undefined", v |-> JUndef]

TextDetails(s) == [kind |-> "text", v |-> JStr(s)]

\* JSON.stringify(v): undefined for undefined, else the JSON text of v, in
\* which members with an undefined value are left out.
RECURSIVE JsonValue(_)
JsonValue(v) ==
    CASE v.t = "arr" -> JArr([i \in 1..Len(v.a) |->
                                 IF v.a[i].t = "undefined" THEN JNull ELSE JsonValue(v.a[i])])
      [] v.t = "obj" ->
            LET kept == SelectSeq(v.o, LAMBDA kv : kv[2].t # "undefined")
            IN JObj([i \in 1..Len(kept) |-> <<kept[i][1], JsonValue(kept[i][2])>>])
      [] OTHER -> v

JsonStringify(v) ==
    IF v.t = "undefined" THEN NoDetails ELSE [kind |-> "json", v |-> JsonValue(v)]

FormattedError(message, type, status, details, retryable, errorCode) ==
    [message |-> message, type |-> type, status |-> status, details |-> details,
     retryable |-> retryable, errorCode |-> errorCode]

ContextPrefix(context) == IF context # "" THEN context \o ": " ELSE ""

\* data?.k
OptGet(data, k) == IF IsNullish(data) THEN JUndef ELSE Get(data, k)

\* The status table of the rich transformError: <<type, retryable>>.
StatusRow(status) ==
    IF status = 400 \/ status = 422 THEN <<"validation", "false">>
    ELSE IF status = 401 \/ status = 403 THEN <<"auth", "false">>
    ELSE IF status = 429 THEN <<"rate_limit", "true">>
    ELSE IF status >= 500 THEN <<"server", "true">>
    ELSE IF status >= 400 /\ status < 500 THEN <<"client", "false">>
    ELSE <<"api", "false">>

\* transformError of the rich error utilities; production is
\* process.env.NODE_ENV === 'production'.
transformError(error, context, production) ==
    LET contextPrefix == ContextPrefix(context) IN
    IF error.kind = "Error" THEN
        LET safeDetails == IF production
                           THEN TextDetails("Error details omitted in production")
                           ELSE TextDetails(StackOf(error))
        IN IF Includes(error.message, "timeout")
           THEN FormattedError(contextPrefix \o
                    "Request timed out. The operation took too long to complete.",
                    "timeout", 0, safeDetails, "true", "")
           ELSE IF Includes(error.message, "network") \/ Includes(error.message, "connection")
           THEN FormattedError(contextPrefix \o
                    "Network error: Connection failed or interrupted.",
                    "network", 0, safeDetails, "true", "")
           ELSE FormattedError(contextPrefix \o error.message,
                    "unknown", 0, safeDetails, "undefined", "")
    ELSE IF error.kind = "object" /\ error.isAxiosError THEN
        IF error.response THEN
            LET status == error.status
                data == error.data
                errorMessage ==
                    OrElse(OptGet(data, "error"),
                    OrElse(OptGet(data, "message"),
                    OrElse(OptGet(data, "errorMessage"),
                    OrElse(OptGet(data, "error_message"), JStr(error.message)))))
                errorCode ==
                    OrElse(OptGet(data, "code"),
                    OrElse(OptGet(data, "errorCode"),
                    OrElse(OptGet(data, "error_code"),
                    OrElse(JStr(error.code), JStr(ToString(status))))))
                safeDetails == IF production
                               THEN TextDetails("Status code: " \o ToString(status))
                               ELSE JsonStringify(data)
            IN FormattedError(contextPrefix \o "API error (" \o ToString(status) \o "): "
                                  \o ToStr(errorMessage),
                              StatusRow(status)[1], status, safeDetails,
                              StatusRow(status)[2], ToStr(errorCode))
        ELSE IF error.request THEN
            FormattedError(contextPrefix \o
                    "Network error: Request sent but no response received.",
                "network", 0,
                IF production THEN TextDetails("Request details omitted in production")
                              ELSE TextDetails("[object Object]"),
                "true", "")
        ELSE
            FormattedError(contextPrefix \o "Request error: " \o error.message,
                "client", 0,
                IF production THEN TextDetails("Stack trace omitted in production")
                              ELSE NoDetails,
                "false", "")
    ELSE FormattedError(contextPrefix \o "Unknown error: " \o StringOf(error),
                        "unknown", 0, NoDetails, "false", "")

\* transformError of the basic error utilities.
transformErrorBasic(error, context) ==
    LET contextPrefix == ContextPrefix(context) IN
    IF error.kind = "Error" THEN
        IF Includes(error.message, "timeout") \/ Includes(error.message, "network")
        THEN FormattedError(contextPrefix \o error.message, "timeout", 0,
                            TextDetails(StackOf(error)), "undefined", "")
        ELSE FormattedError(contextPrefix \o error.message, "unknown", 0,
                            TextDetails(StackOf(error)), "undefined", "")
    ELSE IF error.kind = "object" /\ error.response THEN
        LET status == error.status
            data == error.data
            type == IF status = 400 \/ status = 422 THEN "validation"
                    ELSE IF status = 401 \/ status = 403 THEN "auth"
                    ELSE "api"
        IN FormattedError("API error (" \o ToString(status) \o "): " \o
                              ToStr(OrElse(OptGet(data, "error"),
                                    OrElse(OptGet(data, "message"), JStr(error.message)))),
                          type, status, JsonStringify(data), "undefined", "")
    ELSE IF error.kind = "object" /\ error.request THEN
        FormattedError("Network error: No response received", "network", 0,
                       TextDetails("[object Object]"), "undefined", "")
    ELSE FormattedError("Unknown error: " \o StringOf(error), "unknown", 0,
                        NoDetails, "undefined", "")

\* A formatErrorForMCP that always appends a block with the details.
formatErrorForMCPWithDetails(error, context, production) ==
    << MCPContent("text", JStr(transformError(error, context, production).message)),
       MCPContent("text", JStr("Details: " \o
            ToStr(transformError(error, context, production).details.v))) >>

\* formatErrorForMCP of the rich error utilities: JSON.parse(details) throws
\* for a text that is not JSON, and reading a property of a parsed null
\* throws; both land in the empty catch.
formatErrorForMCP(error, context, production) ==
    LET formattedError == transformError(error, context, production)
        details == formattedError.details.v
        parsed == formattedError.details.kind = "json" /\ ~IsNullish(details)
        validationErrors ==
            OrElse(Get(details, "errors"),
            OrElse(Get(details, "validationErrors"), Get(details, "fields")))
    IN IF /\ formattedError.type = "validation"
          /\ formattedError.details.kind # "undefined"
          /\ parsed
          /\ Truthy(validationErrors)
       THEN << MCPContent("text", JStr(formattedError.message)),
               MCPContent("text", JStr("Validation errors: " \o
                                           JsonPretty(validationErrors, ""))) >>
       ELSE << MCPContent("text", JStr(formattedError.message)) >>

\* formatErrorForMCP of the basic error utilities.
formatErrorForMCPBasic(error, context) ==
    << MCPContent("text", JStr(transformErrorBasic(error, context).message)) >>

(***************************************************************************)
(* The classifier on its own: thrown values, contexts and environments it  *)
(* is applied to.                                                          *)
(***************************************************************************)
ErrorMessages ==
    {"Test error", "timeout of 60000ms exceeded", "network unreachable",
     "Request failed"}

ClassifyStatuses == {302, 400, 401, 403, 404, 422, 429, 499, 500, 503}

ErrorBodies ==
    {JUndef, JNull, JStr("oops"),
     Obj1("error", JStr("Invalid URL format")),
     Obj1("message", JStr("Bad input")),
     Obj2("error", JStr("Invalid parameters"),
          "errors", JArr(<<JStr("url is required")>>))}

ThrownValues ==
    {ThrownValue("string", "boom", FALSE, FALSE, 0, JUndef, FALSE, "")} \cup
    {ThrownValue(k, m, FALSE, FALSE, 0, JUndef, FALSE, "") :
        k \in {"Error", "object"}, m \in ErrorMessages} \cup
    {ThrownValue(k, m, TRUE, TRUE, st, d, TRUE, "ERR_BAD_REQUEST") :
        k \in {"Error", "object"}, m \in ErrorMessages,
        st \in ClassifyStatuses, d \in ErrorBodies} \cup
    {ThrownValue(k, m, TRUE, FALSE, 0, JUndef, rq, "") :
        k \in {"Error", "object"}, m \in ErrorMessages, rq \in BOOLEAN}

Contexts == {"", "Error scraping https://example.com"}

NoFormattedError == FormattedError("", "none", 0, NoDetails, "undefined", "")

ClsIdle ==
    [error |-> ThrownValue("string", "", FALSE, FALSE, 0, JUndef, FALSE, ""),
     context |-> "", production |-> FALSE, ran |-> FALSE,
     rich |-> NoFormattedError, basic |-> NoFormattedError, blocks |-> <<>>]

Classify ==
    /\ ~cls.ran
    /\ cls' = [cls EXCEPT
                 !.ran = TRUE,
                 !.rich = transformError(cls.error, cls.context, cls.production),
                 !.basic = transformErrorBasic(cls.error, cls.context),
                 !.blocks = formatErrorForMCP(cls.error, cls.context, cls.production)]
    /\ UNCHANGED <<execVars, normVars, hnd, auxVars>>

(***************************************************************************)
(* The simplified adapter: toSnakeCase, transformParams and the request    *)
(* each public method hands to apiRequest.                                 *)
(***************************************************************************)
UpperCase == "ABCDEFGHIJKLMNOPQRSTUVWXYZ"

LowerCase == "abcdefghijklmnopqrstuvwxyz"

\* str.replace(/[A-Z]/g, letter => `_${letter.toLowerCase()}`)
\* The replacement without its toLowerCase(): "maxDepth" gives "max_Depth".
RECURSIVE toSnakeCaseKeepingCase(_)
toSnakeCaseKeepingCase(str) ==
    IF str = "" THEN ""
    ELSE LET letter == SubSeq(str, 1, 1)
             upper == \E i \in 1..Len(UpperCase) : SubSeq(UpperCase, i, i) = letter
         IN (IF upper THEN "_" \o letter ELSE letter)
            \o toSnakeCaseKeepingCase(SubSeq(str, 2, Len(str)))

RECURSIVE toSnakeCase(_)
toSnakeCase(str) ==
    IF str = "" THEN ""
    ELSE LET letter == SubSeq(str, 1, 1)
             hits == {i \in 1..Len(UpperCase) : SubSeq(UpperCase, i, i) = letter}
         IN (IF hits = {} THEN letter
             ELSE LET i == CHOOSE i \in hits : TRUE
                  IN "_" \o SubSeq(LowerCase, i, i))
            \o toSnakeCase(SubSeq(str, 2, Len(str)))

\* result[k] = v on an object: an existing key keeps its place.
Put(o, k, v) ==
    IF \E i \in 1..Len(o) : o[i][1] = k
    THEN [i \in 1..Len(o) |-> IF o[i][1] = k THEN <<k, v>> ELSE o[i]]
    ELSE Append(o, <<k, v>>)

\* Object.entries(v) of an object or of an array.
Entries(v) ==
    IF v.t = "arr" THEN [i \in 1..Len(v.a) |-> <<ToString(i - 1), v.a[i]>>]
    ELSE v.o

RECURSIVE transformParams(_)
RECURSIVE TransformEntries(_, _)
TransformEntries(entries, result) ==
    IF entries = <<>> THEN result
    ELSE LET key == entries[1][1]
             value == entries[1][2]
             snakeCaseKey == toSnakeCase(key)
         IN IF value.t = "undefined" THEN TransformEntries(Tail(entries), result)
            ELSE IF value.t = "arr"
            THEN TransformEntries(Tail(entries),
                    Put(result, snakeCaseKey,
                        JArr([i \in 1..Len(value.a) |->
                                 IF value.a[i].t \in {"obj", "arr"}
                                 THEN transformParams(value.a[i])
                                 ELSE value.a[i]])))
            ELSE IF value.t = "obj"
            THEN TransformEntries(Tail(entries),
                    Put(result, snakeCaseKey, transformParams(value)))
            ELSE TransformEntries(Tail(entries), Put(result, snakeCaseKey, value))

\* A transcoder that skips null values as it skips undefined ones.
transformParamsSkippingNull(params) ==
    JObj(SelectSeq(TransformEntries(Entries(params), <<>>), LAMBDA kv : kv[2] # JNull))

transformParams(params) == JObj(TransformEntries(Entries(params), <<>>))

\* { k: first, ...options }
Spread(k, first, options) ==
    LET Fold[i \in 0..Len(options.o)] ==
            IF i = 0 THEN << <<k, first>> >>
            ELSE Put(Fold[i - 1], options.o[i][1], options.o[i][2])
    IN JObj(Fold[Len(options.o)])

FactoryOps == {"scrape", "search", "deepResearch", "checkCrawlStatus", "extract"}

\* What each public method throws when its first argument is missing.
AdapterValidationMessage(op) ==
    CASE op = "scrape" -> "URL is required for scraping"
      [] op = "deepResearch" -> "Query is required for deep research"
      [] op = "checkCrawlStatus" -> "Crawl ID is required to check status"
      [] op = "extract" -> "At least one URL is required for extraction"
      [] OTHER -> "Search query is required"

AdapterRejects(op, first) ==
    IF op = "extract"
    THEN ~Truthy(first) \/ first.t # "arr" \/ Len(first.a) = 0
    ELSE ~Truthy(first)

\* The request a public method hands to apiRequest, as apiRequest sends it.
RequestOf(op, first, options) ==
    IF op = "checkCrawlStatus"
    THEN [method |-> "get", endpoint |-> "/crawl/" \o ToStr(first) \o "/status",
          data |-> JUndef, params |-> transformParams(options)]
    ELSE LET endpoint == CASE op = "scrape" -> "/scrape"
                           [] op = "deepResearch" -> "/deep-research"
                           [] op = "extract" -> "/extract"
                           [] OTHER -> "/search"
             k == CASE op = "scrape" -> "url"
                    [] op = "extract" -> "urls"
                    [] OTHER -> "query"
         IN [method |-> "post", endpoint |-> endpoint,
             data |-> transformParams(Spread(k, first, options)), params |-> JUndef]

NoRequest == [method |-> "none", endpoint |-> "", data |-> JUndef, params |-> JUndef]

\* `API ${method.toUpperCase()} ${endpoint}`
RequestContext(request) ==
    "API " \o (IF request.method = "get" THEN "GET" ELSE "POST") \o " " \o request.endpoint

(***************************************************************************)
(* The handlers declared with createHandler: validator, error context,     *)
(* empty-response message and response transformation of each.             *)
(***************************************************************************)
\* A string validator that accepts every value.
StringValidatorNeverThrows(params, paramName) == FALSE

\* createStringValidator / createArrayValidator: does the validator throw?
StringValidatorThrows(params, paramName) ==
    LET value == Get(params, paramName)
    IN ~Truthy(value) \/ value.t # "str"

ArrayValidatorThrows(params, paramName) ==
    LET value == Get(params, paramName)
    IN ~Truthy(value) \/ value.t # "arr"

ValidatorThrows(op, params) ==
    CASE op = "scrape" -> StringValidatorThrows(params, "url")
      [] op = "checkCrawlStatus" -> StringValidatorThrows(params, "id")
      [] op = "extract" -> ArrayValidatorThrows(params, "urls")
      [] OTHER -> StringValidatorThrows(params, "query")

ValidatorMessage(op) ==
    CASE op = "scrape" -> "URL is required and must be a string"
      [] op = "search" -> "Search query is required and must be a string"
      [] op = "deepResearch" -> "Query is required and must be a string"
      [] op = "checkCrawlStatus" -> "Crawl job ID is required and must be a string"
      [] OTHER -> "URLs are required and must be an array"

errorContext(op, params) ==
    CASE op = "scrape" -> "Error scraping " \o ToStr(Get(params, "url"))
      [] op = "search" -> "Error searching for \"" \o ToStr(Get(params, "query")) \o "\""
      [] op = "deepResearch" -> "Error researching \"" \o ToStr(Get(params, "query")) \o "\""
      [] op = "checkCrawlStatus" ->
            "Error checking crawl status for job " \o ToStr(Get(params, "id"))
      [] OTHER -> "Error extracting data from URLs"

emptyResponseMessage(op, params) ==
    CASE op = "scrape" ->
            "No content was returned from " \o ToStr(Get(params, "url")) \o
            ". The page might be empty, protected, or blocked."
      [] op = "search" ->
            "No results found for query \"" \o ToStr(Get(params, "query")) \o
            "\". Try a different search term or check your search filters."
      [] op = "deepResearch" ->
            "Research on \"" \o ToStr(Get(params, "query")) \o
            "\" did not return any results."
      [] op = "checkCrawlStatus" ->
            "No status information available for crawl job " \o
            ToStr(Get(params, "id")) \o "."
      [] OTHER -> "No data could be extracted from the provided URLs."

\* Only the search handler declares a transformResponse; response is truthy here.
transformResponse(op, response) ==
    IF op = "search" /\ Truthy(Get(response, "results")) /\ Get(response, "results").t = "arr"
    THEN JObj(<< <<"query", Get(response, "query")>>,
                 <<"count", JNum(Len(Get(response, "results").a))>>,
                 <<"results", Get(response, "results")>> >>)
    ELSE response

\* A failure result that carries the message only.
ResearchFailureResultBare(query, message) ==
    JObj(<< <<"query", query>>, <<"success", JBool(FALSE)>>, <<"error", JStr(message)>> >>)

\* The structured result deepResearch returns in place of a failure.
ResearchFailureResult(query, message) ==
    JObj(<< <<"query", query>>, <<"success", JBool(FALSE)>>,
            <<"results", Obj2("summary", JStr(""), "sources", JArr(<<>>))>>,
            <<"error", JStr(message)>> >>)

\* The error utilities the adapter and the factory import: the repository
\* holds a basic and a rich version of the module.
ErrorUtilsVersions == {"basic", "rich"}

Classified(h, error, context) ==
    IF h.errorUtils = "rich" THEN transformError(error, context, h.production)
    ELSE transformErrorBasic(error, context)

FormatError(h, error, context) ==
    IF h.errorUtils = "rich" THEN formatErrorForMCP(error, context, h.production)
    ELSE formatErrorForMCPBasic(error, context)

KindOf(formattedError) == <<formattedError.type, formattedError.retryable>>

\* The message of the TypeError formatContent raises on a malformed payload.
TypeErrorMessage == "Cannot read properties of null"

(***************************************************************************)
(* createHandler: one invocation of a factory-built handler on top of the  *)
(* simplified adapter, split at the await of the HTTP call.                *)
(***************************************************************************)
HandlerParams ==
    {JObj(<<>>),
     Obj1("url", JStr("https://example.com")),
     Obj2("url", JStr("https://example.com"), "includeHtml", JBool(TRUE)),
     Obj1("url", JNum(42)),
     Obj1("query", JStr("tla")),
     Obj2("url", JStr("https://example.com"), "query", JStr("tla")),
     Obj2("query", JStr("tla"), "maxResults", JNum(5)),
     Obj1("id", JStr("job-1")),
     Obj1("urls", JArr(<<JStr("https://a.com"), JStr("https://b.com")>>)),
     Obj1("urls", JArr(<<>>)),
     Obj1("urls", JStr("https://a.com")),
     Obj2("urls", JArr(<<JStr("https://a.com")>>), "outputFormat", JStr("json"))}

RejectStatuses == {400, 401, 429, 500}

\* What the HTTP client rejects with: Error instances flagged isAxiosError.
AxiosRejections ==
    {ThrownValue("Error", "Request failed with status code " \o ToString(st),
                 TRUE, TRUE, st, d, TRUE, "ERR_BAD_REQUEST") :
        st \in RejectStatuses,
        d \in {Obj1("error", JStr("Invalid URL format")),
               Obj2("error", JStr("Invalid parameters"),
                    "errors", JArr(<<JStr("url is required")>>))}} \cup
    {ThrownValue("Error", "timeout of 60000ms exceeded",
                 TRUE, FALSE, 0, JUndef, TRUE, "ECONNABORTED"),
     ThrownValue("Error", "Network Error",
                 TRUE, FALSE, 0, JUndef, TRUE, "ERR_NETWORK")}

\* No HTTP response has been received.
NoBody == [t |-> "none"]

HndIdle ==
    [pc |-> "idle", op |-> "scrape", params |-> JObj(<<>>), production |-> FALSE,
     errorUtils |-> "basic", request |-> NoRequest, origin |-> "none",
     classes |-> <<>>, response |-> JUndef, content |-> <<>>,
     adapterCalls |-> 0, networkCalls |-> 0,
     firstArg |-> JUndef, restArg |-> JUndef, httpFailed |-> FALSE,
     body |-> NoBody]

\* const mainParam = params.url || params.query || params.id
MainParam(params) ==
    OrElse(Get(params, "url"), OrElse(Get(params, "query"), Get(params, "id")))

\* The copy of params with nothing deleted from it.
RestParamsKeepingAll(params) == params

\* const restParams = { ...params } less the url, query and id keys.
RestParams(params) ==
    JObj(SelectSeq(params.o, LAMBDA kv : kv[1] \notin {"url", "query", "id"}))

FirstArgument(params) ==
    IF HasKey(params, "urls") /\ Get(params, "urls").t = "arr"
    THEN Get(params, "urls")
    ELSE MainParam(params)

\* The catch block of the handler.
Catch(h, error, origin) ==
    [h EXCEPT !.pc = "done", !.origin = origin,
              !.classes = Append(h.classes,
                                 KindOf(Classified(h, error, errorContext(h.op, h.params)))),
              !.content = FormatError(h, error, errorContext(h.op, h.params))]

\* The handler from the adapter's return value on.
Respond(h, response) ==
    IF ~Truthy(response)
    THEN [h EXCEPT !.pc = "done", !.response = response,
                   !.content = << MCPContent("text",
                                     JStr(emptyResponseMessage(h.op, h.params))) >>]
    ELSE LET formatted == formatContent(transformResponse(h.op, response))
         IN IF formatted.threw
            THEN Catch([h EXCEPT !.response = response],
                       ErrorOf(TypeErrorMessage), "normalize")
            ELSE [h EXCEPT !.pc = "done", !.response = response,
                           !.content = formatted.blocks]

\* The handler is called: validation, argument extraction and the adapter
\* method up to the HTTP call.
Invoke ==
    /\ hnd.pc = "idle"
    /\ hnd' =
         IF ValidatorThrows(hnd.op, hnd.params)
         THEN Catch(hnd, ErrorOf(ValidatorMessage(hnd.op)), "validator")
         ELSE IF AdapterRejects(hnd.op, FirstArgument(hnd.params))
         THEN Catch([hnd EXCEPT !.adapterCalls = @ + 1,
                                !.firstArg = FirstArgument(hnd.params),
                                !.restArg = RestParams(hnd.params)],
                    ErrorOf(AdapterValidationMessage(hnd.op)), "adapter")
         ELSE [hnd EXCEPT !.pc = "http",
                          !.adapterCalls = @ + 1,
                          !.networkCalls = @ + 1,
                          !.firstArg = FirstArgument(hnd.params),
                          !.restArg = RestParams(hnd.params),
                          !.request = RequestOf(hnd.op, FirstArgument(hnd.params),
                                                RestParams(hnd.params))]
    /\ UNCHANGED <<execVars, normVars, cls, auxVars>>

\* The HTTP call resolves with response.data = data.
HttpRespond(data) ==
    /\ hnd.pc = "http"
    /\ hnd' = Respond([hnd EXCEPT !.body = data],
                       IF ~Truthy(data) THEN JObj(<<>>) ELSE data)
    /\ UNCHANGED <<execVars, normVars, cls, auxVars>>

\* The HTTP call rejects: apiRequest classifies and rethrows a plain Error;
\* deepResearch turns that into a structured result, every other method
\* lets it reach the handler's catch block.
HttpReject(error) ==
    /\ hnd.pc = "http"
    /\ LET formattedError == Classified(hnd, error, RequestContext(hnd.request))
           rethrown == ErrorOf(formattedError.message)
           h1 == [hnd EXCEPT !.origin = "http", !.httpFailed = TRUE,
                             !.classes = <<KindOf(formattedError)>>]
       IN hnd' =
            IF hnd.op = "deepResearch"
            THEN LET second == Classified(hnd, rethrown, "Deep research failed")
                 IN Respond([h1 EXCEPT !.classes = Append(h1.classes, KindOf(second))],
                            ResearchFailureResult(FirstArgument(hnd.params),
                                                  second.message))
            ELSE Catch(h1, rethrown, "http")
    /\ UNCHANGED <<execVars, normVars, cls, auxVars>>

(***************************************************************************)
(* Cache keys of the retrying adapter, on their own: the key a public      *)
(* method builds for each of two option bags.                              *)
(***************************************************************************)
OptionKeys == {"format", "selector"}

OptionValues == {"md", "html"}

\* Option objects with their keys in insertion order.
OrderedBags ==
    { <<>> } \cup
    { << <<k, v>> >> : k \in OptionKeys, v \in OptionValues } \cup
    { bag \in { << <<k1, v1>>, <<k2, v2>> >> :
                    k1 \in OptionKeys, k2 \in OptionKeys,
                    v1 \in OptionValues, v2 \in OptionValues } :
        bag[1][1] # bag[2][1] }

CkIdle ==
    [op |-> "scrape", arg |-> "u1", left |-> <<>>, right |-> <<>>,
     leftKey |-> NoKey, rightKey |-> NoKey, ran |-> FALSE]

\* The public method builds its cache key, once for each bag.
BuildKeys ==
    /\ ~ck.ran
    /\ ck' = [ck EXCEPT !.ran = TRUE,
                        !.leftKey = CacheKeyOf(ck.op, ck.arg, ck.left),
                        !.rightKey = CacheKeyOf(ck.op, ck.arg, ck.right)]
    /\ UNCHANGED <<execVars, normVars, cls, hnd, srv, tp, th>>

(***************************************************************************)
(* The module-level adapter shared by request scopes: every request builds *)
(* its server with createMCPServer, which configures the one adapter, and  *)
(* a tool call of that request later issues an HTTP call through it.       *)
(***************************************************************************)
Requests == {"r1", "r2"}

DefaultBaseUrl == "http://localhost:11235"

\* env.CRAWL4AI_API_KEY and env.CRAWL4AI_API_URL ("" stands for an unset one).
Envs ==
    {[apiKey |-> k, apiUrl |-> u] :
        k \in {"", "key-a", "key-b"}, u \in {"", "https://api.a", "https://api.b"}}

NoEnv == [apiKey |-> "", apiUrl |-> ""]

\* apiClient.defaults after the constructor: no Authorization header.
ConstructedDefaults == [authorization |-> "", baseURL |-> DefaultBaseUrl]

\* setApiKey
setApiKey(defaults, apiKey) ==
    IF apiKey = "" THEN defaults
    ELSE [defaults EXCEPT !.authorization = "Bearer " \o apiKey]

\* configure
configure(defaults, config) ==
    LET keyed == IF config.apiKey # "" THEN setApiKey(defaults, config.apiKey)
                 ELSE defaults
    IN IF config.baseUrl # "" THEN [keyed EXCEPT !.baseURL = config.baseUrl]
       ELSE keyed

IdleScope == [pc |-> "new", env |-> NoEnv, used |-> ConstructedDefaults]

SrvIdle ==
    [defaults |-> ConstructedDefaults, writer |-> "constructor",
     scopes |-> [r \in Requests |-> IdleScope], foreignReads |-> {}]

\* createMCPServer(env) for request r.
CreateServer(r, env) ==
    /\ srv.scopes[r].pc = "new"
    /\ srv' = [srv EXCEPT
                 !.defaults = configure(srv.defaults,
                                 [apiKey |-> env.apiKey,
                                  baseUrl |-> IF env.apiUrl # "" THEN env.apiUrl
                                              ELSE DefaultBaseUrl]),
                 !.writer = r,
                 !.scopes[r] = [pc |-> "ready", env |-> env, used |-> ConstructedDefaults]]
    /\ UNCHANGED <<execVars, normVars, cls, hnd, ck, tp, th>>

\* A tool call of request r reaches apiRequest, which issues the HTTP call
\* with the adapter's current defaults.
ToolCall(r) ==
    /\ srv.scopes[r].pc = "ready"
    /\ srv' = [srv EXCEPT
                 !.scopes[r] = [@ EXCEPT !.pc = "http", !.used = srv.defaults],
                 !.foreignReads = IF srv.writer # r
                                  THEN @ \cup {"apiClient.defaults"} ELSE @]
    /\ UNCHANGED <<execVars, normVars, cls, hnd, ck, tp, th>>

\* The HTTP call of request r settles and the request ends.
RequestDone(r) ==
    /\ srv.scopes[r].pc = "http"
    /\ srv' = [srv EXCEPT !.scopes[r] = [@ EXCEPT !.pc = "done"]]
    /\ UNCHANGED <<execVars, normVars, cls, hnd, ck, tp, th>>

(***************************************************************************)
(* transformParams on its own: parameter bags it is applied to.            *)
(***************************************************************************)
TranscodeLeaves == {JUndef, JNull, JNum(1), JStr("v")}

InnerKeys == {"cssSelector", "css_selector", "id"}

InnerLeaves == {JUndef, JNull, JNum(1)}

InnerObjects ==
    {JObj(<<>>)} \cup
    {Obj1(k, l) : k \in InnerKeys, l \in InnerLeaves} \cup
    {x \in {Obj2(k1, l1, k2, l2) :
                k1 \in InnerKeys, k2 \in InnerKeys,
                l1 \in InnerLeaves, l2 \in InnerLeaves} :
        x.o[1][1] # x.o[2][1]}

TranscodeItems ==
    {JNum(1), JNull, Obj1("actionType", JStr("click")), Obj1("timeoutMs", JUndef),
     JArr(<<JNum(1), JNum(2)>>)}

TranscodeArrays ==
    {JArr(<<>>)} \cup {JArr(<<a>>) : a \in TranscodeItems}
                 \cup {JArr(<<a, b>>) : a \in TranscodeItems, b \in TranscodeItems}

TranscodeValues == TranscodeLeaves \cup InnerObjects \cup TranscodeArrays

TranscodeInputs ==
    {JObj(<<>>)} \cup
    {Obj1(k, v) : k \in {"maxDepth", "waitFor"}, v \in TranscodeValues} \cup
    {Obj2("maxDepth", l1, "max_depth", l2) :
        l1 \in TranscodeLeaves, l2 \in TranscodeLeaves} \cup
    {Obj2("url", JStr("https://example.com"), "waitFor", v) : v \in InnerObjects}

TpIdle == [input |-> JObj(<<>>), out |-> JObj(<<>>), again |-> JObj(<<>>), ran |-> FALSE]

\* transformParams applied to the bag, and once more to its own output.
Transcode ==
    /\ ~tp.ran
    /\ tp' = [tp EXCEPT !.ran = TRUE,
                        !.out = transformParams(tp.input),
                        !.again = transformParams(transformParams(tp.input))]
    /\ UNCHANGED <<execVars, normVars, cls, hnd, ck, srv, th>>

(***************************************************************************)
(* createTypedHandler: the wrapper the server puts around every tool       *)
(* handler.  It receives the caller's parameter object and works on it.    *)
(***************************************************************************)
\* parseEnvInt(value.toString(), defaultValue) for a numeric parameter.
parseEnvInt(value, defaultValue) == IF value.t = "num" THEN value.n ELSE defaultValue

\* getConfigLimits(env): the limits the environment configures.
ConfigLimits ==
    {[maxCrawlDepth |-> d, maxCrawlPages |-> p, maxTimeoutMs |-> 30000] :
        d \in {3, 10}, p \in {100, 1000}}

NoLimits == [maxCrawlDepth |-> 0, maxCrawlPages |-> 0, maxTimeoutMs |-> 0]

\* params[key] = parseEnvInt(params[key].toString(), fallback), then
\* params[key] = Math.min(params[key], limit), both under
\* params[key] !== undefined.
ClampInPlace(params, key, fallback, limit) ==
    IF Get(params, key) = JUndef THEN params
    ELSE JObj(Put(params.o, key,
                  JNum(Min(parseEnvInt(Get(params, key), fallback), limit))))

\* The body of the wrapper up to the call of the wrapped handler.
TypedHandlerBody(params, limits) ==
    ClampInPlace(
        ClampInPlace(
            ClampInPlace(params, "maxDepth", 3, limits.maxCrawlDepth),
            "limit", 100, limits.maxCrawlPages),
        "timeout", 30000, limits.maxTimeoutMs)

OptionalNumber(key, values) == {<<>>} \cup {<< <<key, JNum(n)>> >> : n \in values}

\* Parameter objects a caller hands to a wrapped tool handler.
TypedParams ==
    {JObj(<< <<"url", JStr("https://example.com")>> >> \o d \o l \o t) :
        d \in OptionalNumber("maxDepth", {2, 50}),
        l \in OptionalNumber("limit", {50, 5000}),
        t \in OptionalNumber("timeout", {1000, 60000})}

ThIdle ==
    [supplied |-> JObj(<<>>), callerObject |-> JObj(<<>>), limits |-> NoLimits,
     handed |-> JObj(<<>>), pc |-> "idle"]

\* The wrapper runs on the caller's object and hands that object on.
TypedCall ==
    /\ th.pc = "idle"
    /\ th' = [th EXCEPT !.pc = "handler",
                        !.callerObject = TypedHandlerBody(th.callerObject, th.limits),
                        !.handed = TypedHandlerBody(th.callerObject, th.limits)]
    /\ UNCHANGED <<execVars, normVars, cls, hnd, ck, srv, tp>>

\* The wrapped handler copies what it needs (createHandler destructures the
\* object into new ones) and the tool call returns.
TypedReturn ==
    /\ th.pc = "handler"
    /\ th' = [th EXCEPT !.pc = "returned"]
    /\ UNCHANGED <<execVars, normVars, cls, hnd, ck, srv, tp>>

AuxIdle == ck = CkIdle /\ srv = SrvIdle /\ tp = TpIdle /\ th = ThIdle

(***************************************************************************)
(* executeRequest: the guards of its cache lookup, its loop and its retry  *)
(* decision.                                                               *)
(***************************************************************************)
UseCacheAlways(method, cacheKey) == TRUE

UseCache(method, cacheKey) == method = "GET" /\ cacheKey # NoKey

LoopContinuesShort(retries) == retries < maxRetries

LoopContinues(retries) == retries <= maxRetries

ShouldRetryAny(error, retries) == retries < maxRetries

ShouldRetry(error, retries) ==
    error.name = "Crawl4AIError" /\ error.retryable /\ retries < maxRetries

\* A delay that grows by initialDelayMs with every retry.
BackoffDelayLinear(retries) ==
    Min(initialDelayMs * (retries + 1), maxDelayMs)

BackoffDelay(retries) ==
    Min(initialDelayMs * Pow(backoffFactor, retries), maxDelayMs)

IdleInv ==
    [pc |-> "idle", op |-> "none", arg |-> "", opts |-> <<>>,
     method |-> "", key |-> NoKey, retries |-> 0, attempts |-> 0,
     lastError |-> NoError, delay |-> 0, onlyServer |-> TRUE,
     execError |-> NoError, thrown |-> NoError, result |-> NoResult,
     prev |-> NoResult]

\* The catch block of a public method around executeRequest.
PublicCatch(r, error) ==
    IF r.op = "deepResearch"
    THEN [r EXCEPT !.pc = "returned", !.execError = error,
                   !.result = ResearchFailure(r.arg,
                                  AdapterErrorMessage(error, ErrorContextOf(r.op)))]
    ELSE [r EXCEPT !.pc = "thrown", !.execError = error,
                   !.thrown = PlainError(AdapterErrorMessage(error, ErrorContextOf(r.op)))]

\* The head of the while loop: one more HTTP attempt, or the final throw.
EnterLoop(r) ==
    IF LoopContinues(r.retries)
    THEN [r EXCEPT !.pc = "http", !.attempts = @ + 1]
    ELSE PublicCatch(r, IF r.lastError # NoError THEN r.lastError
                        ELSE PlainError("Request failed with unknown error"))

\* History: the payload an identical, already returned call produced.
PreviousPayload(i, op, arg, opts) ==
    LET same == {j \in Invocations \ {i} :
                    /\ inv[j].pc = "returned" /\ inv[j].op = op
                    /\ inv[j].arg = arg /\ inv[j].opts = opts
                    /\ inv[j].result.t = "body"}
    IN IF same = {} THEN NoResult ELSE inv[CHOOSE j \in same : TRUE].result

Call(i, op, arg, opts) ==
    /\ inv[i].pc = "idle"
    /\ calls < MaxCalls
    /\ calls' = calls + 1
    /\ LET key == CacheKeyOf(op, arg, opts)
           method == MethodOf(op)
           r == [IdleInv EXCEPT !.op = op, !.arg = arg, !.opts = opts,
                                !.method = method, !.key = key,
                                !.prev = PreviousPayload(i, op, arg, opts)]
       IN /\ cacheOps' = IF UseCache(method, key) THEN cacheOps \cup {op} ELSE cacheOps
          /\ inv' = [inv EXCEPT ![i] =
                        IF UseCache(method, key) /\ key \in DOMAIN cache
                        THEN [r EXCEPT !.pc = "returned", !.result = cache[key]]
                        ELSE EnterLoop(r)]
    /\ UNCHANGED <<cache, normVars, cls, hnd, auxVars>>

HttpSucceed(i, body) ==
    /\ inv[i].pc = "http"
    /\ LET r == inv[i]
           use == UseCache(r.method, r.key)
       IN /\ cache' = IF use
                      THEN [k \in DOMAIN cache \cup {r.key} |->
                               IF k = r.key THEN Body(body) ELSE cache[k]]
                      ELSE cache
          /\ cacheOps' = IF use THEN cacheOps \cup {r.op} ELSE cacheOps
          /\ inv' = [inv EXCEPT ![i] = [r EXCEPT !.pc = "returned",
                                                 !.result = Body(body),
                                                 !.onlyServer = FALSE]]
    /\ UNCHANGED <<calls, normVars, cls, hnd, auxVars>>

HttpFail(i, f) ==
    /\ inv[i].pc = "http"
    /\ LET error == Interceptor(f)
           r == [inv[i] EXCEPT !.lastError = error,
                               !.onlyServer = @ /\ error.type = "server"]
       IN inv' = [inv EXCEPT ![i] =
                     IF ShouldRetry(error, r.retries)
                     THEN [r EXCEPT !.pc = "backoff", !.delay = BackoffDelay(r.retries)]
                     ELSE PublicCatch(r, error)]
    /\ UNCHANGED <<cache, cacheOps, calls, normVars, cls, hnd, auxVars>>

\* The retry counter kept in one place for all calls: the end of one call's
\* wait counts a retry for every call.
BackoffElapsedShared(i) ==
    /\ inv[i].pc = "backoff"
    /\ inv' = [j \in Invocations |->
                 IF j = i THEN EnterLoop([inv[i] EXCEPT !.retries = @ + 1, !.delay = 0])
                 ELSE [inv[j] EXCEPT !.retries = @ + 1]]
    /\ UNCHANGED <<cache, cacheOps, calls, normVars, cls, hnd, auxVars>>

\* The end of the wait without `retries++`.
BackoffElapsedUncounted(i) ==
    /\ inv[i].pc = "backoff"
    /\ inv' = [inv EXCEPT ![i] = EnterLoop([inv[i] EXCEPT !.delay = 0])]
    /\ UNCHANGED <<cache, cacheOps, calls, normVars, cls, hnd, auxVars>>

BackoffElapsed(i) ==
    /\ inv[i].pc = "backoff"
    /\ inv' = [inv EXCEPT ![i] = EnterLoop([inv[i] EXCEPT !.retries = @ + 1,
                                                          !.delay = 0])]
    /\ UNCHANGED <<cache, cacheOps, calls, normVars, cls, hnd, auxVars>>

\* The caller consumes the settled promise; the slot is free again.
Finish(i) ==
    /\ inv[i].pc \in {"returned", "thrown"}
    /\ inv' = [inv EXCEPT ![i] = IdleInv]
    /\ UNCHANGED <<cache, cacheOps, calls, normVars, cls, hnd, auxVars>>

ExecInit ==
    /\ inv = [i \in Invocations |-> IdleInv]
    /\ cache = << >>
    /\ cacheOps = {}
    /\ calls = 0

NotRun == [threw |-> FALSE, blocks |-> <<>>, ran |-> FALSE, by |-> "none"]

NormIdle ==
    /\ npayload = JUndef
    /\ nresult = NotRun

Init ==
    /\ ExecInit
    /\ NormIdle
    /\ cls = ClsIdle
    /\ hnd = HndIdle
    /\ AuxIdle

Next ==
    \/ \E i \in Invocations, op \in Operations, arg \in Args, opts \in OptionBags :
          Call(i, op, arg, opts)
    \/ \E i \in Invocations, body \in ResponseBodies : HttpSucceed(i, body)
    \/ \E i \in Invocations, f \in HttpFailures : HttpFail(i, f)
    \/ \E i \in Invocations : BackoffElapsed(i)
    \/ \E i \in Invocations : Finish(i)

Spec == Init /\ [][Next]_vars

(***************************************************************************)
(* The content normalizer on its own: formatContent applied to a payload.  *)
(***************************************************************************)
Normalize ==
    /\ ~nresult.ran
    /\ nresult' = [threw |-> formatContent(npayload).threw,
                   blocks |-> formatContent(npayload).blocks, ran |-> TRUE,
                   by |-> "formatContent"]
    /\ UNCHANGED <<npayload, execVars, cls, hnd, auxVars>>

NormInit ==
    /\ ExecInit
    /\ npayload \in Payloads
    /\ nresult = NotRun
    /\ cls = ClsIdle
    /\ hnd = HndIdle
    /\ AuxIdle

NormNext == Normalize

SpecNormalize == NormInit /\ [][NormNext]_vars

(***************************************************************************)
(* The handler pipeline and the classifier as specifications of their own. *)
(***************************************************************************)
HandlerInit ==
    /\ ExecInit
    /\ NormIdle
    /\ cls = ClsIdle
    /\ hnd \in {[HndIdle EXCEPT !.op = op, !.params = p, !.production = prod,
                                !.errorUtils = v] :
                   op \in FactoryOps, p \in HandlerParams, prod \in BOOLEAN,
                   v \in ErrorUtilsVersions}
    /\ AuxIdle

HandlerNext ==
    \/ Invoke
    \/ \E data \in Payloads : HttpRespond(data)
    \/ \E error \in AxiosRejections : HttpReject(error)

SpecHandler == HandlerInit /\ [][HandlerNext]_vars

ClassifyInit ==
    /\ ExecInit
    /\ NormIdle
    /\ hnd = HndIdle
    /\ cls \in {[ClsIdle EXCEPT !.error = e, !.context = c, !.production = prod] :
                   e \in ThrownValues, c \in Contexts, prod \in BOOLEAN}
    /\ AuxIdle

ClassifyNext == Classify

SpecClassify == ClassifyInit /\ [][ClassifyNext]_vars

CacheKeyInit ==
    /\ ExecInit
    /\ NormIdle
    /\ cls = ClsIdle
    /\ hnd = HndIdle
    /\ srv = SrvIdle
    /\ tp = TpIdle
    /\ th = ThIdle
    /\ ck \in {[CkIdle EXCEPT !.op = op, !.arg = arg, !.left = l, !.right = r] :
                  op \in Operations, arg \in Args, l \in OrderedBags, r \in OrderedBags}

CacheKeyNext == BuildKeys

SpecCacheKey == CacheKeyInit /\ [][CacheKeyNext]_vars

ServerInit ==
    /\ ExecInit
    /\ NormIdle
    /\ cls = ClsIdle
    /\ hnd = HndIdle
    /\ ck = CkIdle
    /\ tp = TpIdle
    /\ th = ThIdle
    /\ srv = SrvIdle

ServerNext ==
    \/ \E r \in Requests, env \in Envs : CreateServer(r, env)
    \/ \E r \in Requests : ToolCall(r)
    \/ \E r \in Requests : RequestDone(r)

SpecServer == ServerInit /\ [][ServerNext]_vars

TranscodeInit ==
    /\ ExecInit
    /\ NormIdle
    /\ cls = ClsIdle
    /\ hnd = HndIdle
    /\ ck = CkIdle
    /\ srv = SrvIdle
    /\ th = ThIdle
    /\ tp \in {[TpIdle EXCEPT !.input = x] : x \in TranscodeInputs}

TranscodeNext == Transcode

SpecTranscode == TranscodeInit /\ [][TranscodeNext]_vars

TypedInit ==
    /\ ExecInit
    /\ NormIdle
    /\ cls = ClsIdle
    /\ hnd = HndIdle
    /\ ck = CkIdle
    /\ srv = SrvIdle
    /\ tp = TpIdle
    /\ th \in {[ThIdle EXCEPT !.supplied = p, !.callerObject = p, !.limits = l] :
                  p \in TypedParams, l \in ConfigLimits}

TypedNext == TypedCall \/ TypedReturn

SpecTyped == TypedInit /\ [][TypedNext]_vars

(***************************************************************************)
(* Claims about the retrying adapter, checked under Spec.                  *)
(***************************************************************************)
Settled == {"returned", "thrown"}

\* The operations the specification declares idempotent / cacheable.
CacheableOps == {"scrape", "mapUrls", "extract", "checkCrawlStatus"}

\* The failure kinds the specification allows to be retried.
RetriedKinds == {"rate_limit", "server", "network", "timeout"}

\* C1: when every network attempt of one executeRequest call failed with a
\* SERVER error, the call made exactly maxRetries + 1 attempts and the error
\* it raised has kind SERVER.
C1_RetryBound ==
    \A i \in Invocations :
        (inv[i].execError # NoError /\ inv[i].onlyServer) =>
            /\ inv[i].attempts = maxRetries + 1
            /\ inv[i].execError.type = "server"

C1_Witness ==
    \E i \in Invocations :
        /\ inv[i].pc = "thrown" /\ inv[i].onlyServer
        /\ inv[i].attempts = 4 /\ inv[i].execError.statusCode = 500

\* C2: a call of a cacheable operation that repeats an identical call which
\* has already returned makes no network attempt and returns the same payload.
C2_CacheIdempotence ==
    \A i \in Invocations :
        (/\ inv[i].pc = "returned" /\ inv[i].prev # NoResult
         /\ inv[i].op \in CacheableOps) =>
            /\ inv[i].attempts = 0
            /\ inv[i].result = inv[i].prev

\* C3: an attempt is followed by a wait or by another attempt only when it
\* failed with a retryable kind, and a 401 failure settles the call at once
\* (after exactly one attempt when it is the call's first failure).
C3_NonRetryableNotRetried ==
    \A i \in Invocations :
        /\ (inv[i].pc \in {"http", "backoff"} /\ inv[i].lastError # NoError) =>
               inv[i].lastError.type \in RetriedKinds
        /\ inv[i].lastError.statusCode = 401 =>
               /\ inv[i].pc \in Settled
               /\ inv[i].retries = 0 => inv[i].attempts = 1

C3_Witness ==
    \E i \in Invocations :
        /\ inv[i].pc = "thrown" /\ inv[i].execError.statusCode = 401
        /\ inv[i].execError.type = "authentication" /\ inv[i].attempts = 1

\* C10: the cache is read and written only on behalf of the idempotent
\* operations, never on behalf of crawl or deepResearch.
C10_CacheOnlyIdempotent == cacheOps \subseteq CacheableOps

C10_Witness ==
    \E i \in Invocations :
        /\ inv[i].op = "crawl" /\ inv[i].pc = "returned"
        /\ inv[i].attempts >= 1 /\ "crawl" \notin cacheOps

(***************************************************************************)
(* Claims about factory-built handlers, checked under SpecHandler.         *)
(***************************************************************************)
BlockType(block) == Get(block, "type")

BlockText(block) == ToStr(Get(block, "text"))

StartsWith(s, prefix) == Len(s) >= Len(prefix) /\ SubSeq(s, 1, Len(prefix)) = prefix

Swallowed == hnd.op = "deepResearch" /\ hnd.origin = "http"

\* C4 (as amended): whenever a failure occurred on the way (a validator or
\* the adapter rejected the arguments, the HTTP call failed, or formatContent
\* threw), the handler returns exactly one content block.  For deepResearch
\* with a failed HTTP call that block is the json block of the structured
\* { success: false } result; in every other case it is a text block that
\* starts with the handler's error context.
C4_OneErrorBlock ==
    (hnd.pc = "done" /\ hnd.origin # "none") =>
        /\ Len(hnd.content) = 1
        /\ IF Swallowed
           THEN /\ BlockType(hnd.content[1]) = JStr("json")
                /\ Includes(BlockText(hnd.content[1]), "\"success\": false")
           ELSE /\ BlockType(hnd.content[1]) = JStr("text")
                /\ StartsWith(BlockText(hnd.content[1]),
                              errorContext(hnd.op, hnd.params) \o ": ")

\* C4 witness: a scrape whose HTTP call failed with status 500 has ended in
\* one text block, under the rich error utilities.
C4_Witness ==
    /\ hnd.pc = "done" /\ hnd.op = "scrape" /\ hnd.origin = "http"
    /\ hnd.errorUtils = "rich"
    /\ Len(hnd.classes) = 2
    /\ Len(hnd.content) = 1
    /\ BlockText(hnd.content[1]) =
         "Error scraping https://example.com: API POST /scrape: " \o
         "Request failed with status code 500"

\* C4 (as stated): for every operation and every failure kind the handler
\* returns exactly one block and that block is a text block.
C4_OneTextBlock ==
    (hnd.pc = "done" /\ hnd.origin # "none") =>
        /\ Len(hnd.content) = 1
        /\ BlockType(hnd.content[1]) = JStr("text")

\* C5: every handler invocation that returns a response returns a non-empty
\* sequence of content blocks.
C5_NonEmptyContent == hnd.pc = "done" => Len(hnd.content) >= 1

\* C9: on the path from a failed HTTP attempt to the handler's response,
\* every classification of the failure assigns the kind and retryability
\* that the first classification assigned.
C9_FirstClassificationKept ==
    \A k \in 1..Len(hnd.classes) : hnd.classes[k] = hnd.classes[1]

(***************************************************************************)
(* Claims about formatContent, checked under SpecNormalize.                *)
(***************************************************************************)
\* C6: formatContent never throws, whatever the payload.
C6_NeverThrows == ~nresult.threw

(***************************************************************************)
(* Claims about transformError, checked under SpecClassify.                *)
(***************************************************************************)
\* C7: an error that carries an HTTP response is classified by its status
\* alone: 400/422 validation (not retryable), 401/403 auth (not retryable),
\* 429 rate_limit (retryable), 500 and above server (retryable), any other
\* 4xx client (not retryable).
C7_ByStatusAlone ==
    (cls.ran /\ cls.error.response) =>
        LET st == cls.error.status
            got == <<cls.rich.type, cls.rich.retryable>>
        IN /\ st \in {400, 422} => got = <<"validation", "false">>
           /\ st \in {401, 403} => got = <<"auth", "false">>
           /\ st = 429 => got = <<"rate_limit", "true">>
           /\ st >= 500 => got = <<"server", "true">>
           /\ (st \in 400..499 /\ st \notin {400, 401, 403, 422, 429}) =>
                  got = <<"client", "false">>

\* The rows of the classifier's decision table that an error satisfies, by
\* row number, and the kind each row assigns.  Row 8, the plain-error row,
\* is satisfied by every Error instance and by every object without a
\* transport signature.
TableRows(error) ==
    {r \in 1..8 :
        CASE r = 1 -> error.response /\ error.status \in {400, 422}
          [] r = 2 -> error.response /\ error.status \in {401, 403}
          [] r = 3 -> error.response /\ error.status = 429
          [] r = 4 -> error.response /\ error.status >= 500
          [] r = 5 -> error.response /\ error.status \in 400..499
          [] r = 6 -> error.request /\ ~error.response
          [] r = 7 -> Includes(error.message, "timeout")
          [] OTHER -> error.kind = "Error" \/ (error.kind = "object" /\ ~error.isAxiosError)}

TableKind(r) ==
    <<"validation", "auth", "rate_limit", "server", "client",
      "network", "timeout", "unknown">>[r]

\* C8: for an error that satisfies several rows of the decision table, the
\* kind returned is that of the earliest row it satisfies.
C8_FirstRowWins ==
    (cls.ran /\ Cardinality(TableRows(cls.error)) >= 2) =>
        cls.rich.type =
            TableKind(CHOOSE r \in TableRows(cls.error) :
                          \A q \in TableRows(cls.error) : r <= q)

(***************************************************************************)
(* Claims about cache keys, checked under SpecCacheKey.                    *)
(***************************************************************************)
\* Two option bags that are equal as JSON values: the same members, in any order.
SameJsonValue(a, b) == {a[i] : i \in 1..Len(a)} = {b[i] : i \in 1..Len(b)}

\* C11: two option bags that are equal as JSON values but list their keys in
\* a different order give the same cache key.
C11_KeyOrderIndependent ==
    (ck.ran /\ SameJsonValue(ck.left, ck.right)) => ck.leftKey = ck.rightKey

\* params.url is missing, not a string, or the empty string.
LacksStringUrl(params) ==
    Get(params, "url").t # "str" \/ Get(params, "url") = JStr("")

\* C12: the scrape handler, called with parameters that have no string url
\* (none, a non-string or the empty string), answers with exactly one text
\* block, the error context followed by ": URL is required and must be a
\* string", and calls neither the adapter nor the network.
C12_ScrapeValidation ==
    (hnd.pc = "done" /\ hnd.op = "scrape" /\ LacksStringUrl(hnd.params)) =>
        /\ hnd.content =
              << MCPContent("text",
                     JStr(errorContext("scrape", hnd.params)
                          \o ": URL is required and must be a string")) >>
        /\ hnd.adapterCalls = 0
        /\ hnd.networkCalls = 0

\* C12, the case: a scrape call whose url is a number has been answered.
C12_Witness ==
    /\ hnd.pc = "done"
    /\ hnd.op = "scrape"
    /\ Get(hnd.params, "url") = JNum(42)
    /\ hnd.origin = "validator"

\* C13: the only state that one request writes and another request reads is
\* the response cache.
C13_OnlyCacheShared == srv.foreignReads \subseteq {"responseCache"}

\* C14: the wait before the retry that follows failed attempt number k
\* (counting from 0) is min(maxDelay, initialDelay * backoffFactor^k): 1000,
\* 2000 and 4000 ms with the defaults, never more than maxDelay, and there is
\* no wait after attempt number 3.
C14_BackoffSchedule ==
    \A i \in Invocations :
        inv[i].pc = "backoff" =>
            /\ inv[i].attempts = inv[i].retries + 1
            /\ inv[i].retries \in 0..2
            /\ inv[i].retries = 0 => inv[i].delay = 1000
            /\ inv[i].retries = 1 => inv[i].delay = 2000
            /\ inv[i].retries = 2 => inv[i].delay = 4000
            /\ inv[i].delay <= maxDelayMs

\* C14, the case: a call is waiting 4000 ms after its third failed attempt.
C14_Witness ==
    \E i \in Invocations :
        inv[i].pc = "backoff" /\ inv[i].attempts = 3 /\ inv[i].delay = 4000

\* C20: a call that succeeded upstream with an empty body returns an empty
\* JSON object: no public method of the retrying adapter returns null.
C20_EmptyBodyNormalized ==
    \A i \in Invocations :
        (inv[i].pc = "returned" /\ inv[i].result.t = "body") =>
            inv[i].result.v # NullBody

(***************************************************************************)
(* Claims about transformParams, checked under SpecTranscode.              *)
(***************************************************************************)
\* y has the shape of x: the same nesting, arrays of the same length, one
\* key of y for every key of x with a value other than undefined, the same
\* leaves.
RECURSIVE Isomorphic(_, _)
Isomorphic(x, y) ==
    CASE x.t = "obj" ->
            /\ y.t = "obj"
            /\ Len(y.o) = Len(SelectSeq(x.o, LAMBDA kv : kv[2] # JUndef))
            /\ \A i \in 1..Len(x.o) :
                  x.o[i][2] # JUndef =>
                      /\ HasKey(y, toSnakeCase(x.o[i][1]))
                      /\ Isomorphic(x.o[i][2], Get(y, toSnakeCase(x.o[i][1])))
      [] x.t = "arr" ->
            /\ y.t = "arr"
            /\ Len(y.a) = Len(x.a)
            /\ \A i \in 1..Len(x.a) : Isomorphic(x.a[i], y.a[i])
      [] OTHER -> y = x

\* C15: the output of transformParams is structurally isomorphic to its
\* input: same nesting, every array an array of the same length, one output
\* key for every key with a value other than undefined, leaves unchanged.
C15_Isomorphic == tp.ran => Isomorphic(tp.input, tp.out)

\* A later key of the same object has the snake_case spelling of key i and
\* a value other than undefined: its assignment replaces that of key i.
Overwritten(entries, i) ==
    \E j \in (i + 1)..Len(entries) :
        /\ toSnakeCase(entries[j][1]) = toSnakeCase(entries[i][1])
        /\ entries[j][2] # JUndef

\* Another key of the same object supplies the output key of key i.
Supplied(entries, i) ==
    \E j \in (1..Len(entries)) \ {i} :
        /\ toSnakeCase(entries[j][1]) = toSnakeCase(entries[i][1])
        /\ entries[j][2] # JUndef

\* In y, the transcoded x, a key of x with the value undefined has no output
\* key (unless another key supplies it) and a key with the value null has its
\* output key with the value null, at every depth of objects; unless `every`,
\* keys that a later key overwrites are left out of the comparison.
RECURSIVE UndefinedDroppedNullKept(_, _, _)
UndefinedDroppedNullKept(x, y, every) ==
    LET entries == Entries(x)
    IN \A i \in 1..Len(entries) :
         LET k == toSnakeCase(entries[i][1])
             v == entries[i][2]
         IN CASE v.t = "undefined" -> Supplied(entries, i) \/ ~HasKey(y, k)
              [] v.t = "null" ->
                    (every \/ ~Overwritten(entries, i)) =>
                        HasKey(y, k) /\ Get(y, k) = JNull
              [] v.t = "obj" ->
                    (every \/ ~Overwritten(entries, i)) =>
                        HasKey(y, k) /\ UndefinedDroppedNullKept(v, Get(y, k), every)
              [] v.t = "arr" ->
                    (every \/ ~Overwritten(entries, i)) =>
                        /\ HasKey(y, k)
                        /\ Get(y, k).t = "arr"
                        /\ Len(Get(y, k).a) = Len(v.a)
                        /\ \A n \in 1..Len(v.a) :
                              v.a[n].t \in {"obj", "arr"} =>
                                  UndefinedDroppedNullKept(v.a[n], Get(y, k).a[n], every)
              [] OTHER -> TRUE

C17_Idempotent == tp.ran => tp.again = tp.out

\* C17, the case: a bag with camelCase keys at two depths has been
\* transcoded to snake_case keys.
C17_Witness ==
    /\ tp.ran
    /\ tp.input = Obj1("maxDepth", Obj1("cssSelector", JNum(1)))
    /\ tp.out = Obj1("max_depth", Obj1("css_selector", JNum(1)))

\* C18: after a tool call has returned, the object the caller supplied has
\* the keys and the values it had before the call.
C18_CallerObjectUnchanged == th.pc = "returned" => th.callerObject = th.supplied

\* C19: in production mode, the details of a classified failure that carries
\* an HTTP response are a status-only string, the same whatever the response
\* body is.
C19_StatusOnlyDetails ==
    (cls.ran /\ cls.production /\ cls.error.response) =>
        /\ cls.rich.details = TextDetails("Status code: " \o ToString(cls.error.status))
        /\ \A d \in ErrorBodies :
              transformError([cls.error EXCEPT !.data = d], cls.context, TRUE).details
                  = cls.rich.details

\* The key of the primary positional argument of each operation.
PrimaryKey(op) ==
    CASE op = "scrape" -> "url"
      [] op = "checkCrawlStatus" -> "id"
      [] op = "extract" -> "urls"
      [] OTHER -> "query"

\* C21: when a handler calls the adapter, the first argument is the
\* operation's primary argument (url, query, id or the urls list) and the
\* options object passed second does not have that argument's key.
C21_PrimaryArgumentRemoved ==
    hnd.adapterCalls > 0 =>
        /\ hnd.firstArg = Get(hnd.params, PrimaryKey(hnd.op))
        /\ ~HasKey(hnd.restArg, PrimaryKey(hnd.op))

\* C21, amended: the first argument is the urls list when there is one, and
\* otherwise the first truthy one of url, query and id (the operation's
\* primary argument when the parameters have only one of these keys); the
\* options object has none of the keys url, query and id, and it has every
\* other key of the parameters, the urls key included, with its value.
C21_ScalarKeysRemoved ==
    hnd.adapterCalls > 0 =>
        /\ hnd.firstArg =
              IF Get(hnd.params, "urls").t = "arr" THEN Get(hnd.params, "urls")
              ELSE IF Truthy(Get(hnd.params, "url")) THEN Get(hnd.params, "url")
              ELSE IF Truthy(Get(hnd.params, "query")) THEN Get(hnd.params, "query")
              ELSE Get(hnd.params, "id")
        /\ Cardinality({k \in {"url", "query", "id"} : HasKey(hnd.params, k)}) <= 1 =>
              hnd.firstArg = Get(hnd.params, PrimaryKey(hnd.op))
        /\ \A k \in {"url", "query", "id"} : ~HasKey(hnd.restArg, k)
        /\ \A i \in 1..Len(hnd.params.o) :
              hnd.params.o[i][1] \notin {"url", "query", "id"} =>
                  /\ HasKey(hnd.restArg, hnd.params.o[i][1])
                  /\ Get(hnd.restArg, hnd.params.o[i][1]) = hnd.params.o[i][2]

\* C21, the case: the extract handler has called the adapter with a urls
\* list and one option.
C21_Witness ==
    /\ hnd.op = "extract"
    /\ hnd.adapterCalls = 1
    /\ hnd.firstArg = JArr(<<JStr("https://a.com")>>)
    /\ hnd.restArg = Obj2("urls", JArr(<<JStr("https://a.com")>>),
                          "outputFormat", JStr("json"))

(***************************************************************************)
(* Claims about the formatter chain, checked under SpecNormalize.          *)
(***************************************************************************)
\* The order the formatters are tried in, as specified.
SpecifiedOrder == <<"research", "urls", "search", "status", "scrape", "props">>

\* What each formatter makes of the payload, in the specified order.
FormatterOutputs == [k \in 1..Len(SpecifiedOrder) |-> RunHandler(SpecifiedOrder[k], npayload)]

\* The formatters that yield a block, and those that throw.
Yielding == {k \in 1..Len(SpecifiedOrder) : Len(FormatterOutputs[k].blocks) > 0}

Throwing == {k \in 1..Len(SpecifiedOrder) : FormatterOutputs[k].threw}

First(S) == CHOOSE k \in S : \A j \in S : k <= j

JsonFallback == <<MCPContent("json", JStr(JsonPretty(npayload, "")))>>

C23_ResearchFailureStructured ==
    (hnd.pc = "done" /\ hnd.op = "deepResearch" /\ hnd.httpFailed) =>
              /\ Truthy(hnd.firstArg)
              /\ hnd.response.t = "obj"
              /\ [i \in 1..Len(hnd.response.o) |-> hnd.response.o[i][1]]
                    = <<"query", "success", "results", "error">>
              /\ Get(hnd.response, "query") = hnd.firstArg
              /\ Get(hnd.response, "success") = JBool(FALSE)
              /\ Get(hnd.response, "results")
                    = Obj2("summary", JStr(""), "sources", JArr(<<>>))
              /\ Get(hnd.response, "error").t = "str"
              /\ Get(hnd.response, "error") # JStr("")

\* C23, the case: a deepResearch call whose HTTP call failed has been
\* answered from the structured result.
C23_Witness ==
    /\ hnd.pc = "done"
    /\ hnd.op = "deepResearch"
    /\ hnd.httpFailed
    /\ Get(hnd.params, "query") = JStr("tla")
    /\ Get(hnd.response, "success") = JBool(FALSE)

(***************************************************************************)
(* Further claims about the retrying adapter, checked under Spec.          *)
(***************************************************************************)
\* While call i waits in a backoff delay, every other call can take its
\* next step: start, have its HTTP attempt succeed or fail, or be consumed.
OthersProceed ==
    \A i \in Invocations :
        inv[i].pc = "backoff" =>
            \A j \in Invocations \ {i} :
                /\ (inv[j].pc = "idle" /\ calls < MaxCalls) =>
                       ENABLED Call(j, "scrape", "u1", <<>>)
                /\ inv[j].pc = "http" =>
                       /\ ENABLED HttpSucceed(j, "p1")
                       /\ ENABLED HttpFail(j, [response |-> TRUE, status |-> 500])
                /\ inv[j].pc = "backoff" => ENABLED BackoffElapsed(j)
                /\ inv[j].pc \in {"returned", "thrown"} => ENABLED Finish(j)

\* A step changes the retry state of one call at most.
OwnCounters ==
    \A i \in Invocations, j \in Invocations :
        (i # j /\ inv'[i] # inv[i]) => inv'[j] = inv[j]

\* C24: retries block only the call that issued them: while one call waits
\* in a backoff delay every other call can start, make its attempts and
\* complete, and no step of one call changes the counters of another.
C24_RetriesBlockOnlyIssuer == []OthersProceed /\ [][OwnCounters]_vars

\* C24, the case: one call is still waiting after its first failed attempt
\* while another, started meanwhile, has returned after one attempt.
C24_Witness ==
    \E i \in Invocations, j \in Invocations :
        /\ inv[i].pc = "backoff" /\ inv[i].attempts = 1
        /\ inv[j].pc = "returned" /\ inv[j].attempts = 1

\* executeRequest under the scheduling the runtime gives it: every HTTP
\* attempt settles (the client's timeout bounds it) and every timer fires.
Fairness ==
    \A i \in Invocations :
        /\ WF_vars((\E body \in ResponseBodies : HttpSucceed(i, body))
                     \/ (\E f \in HttpFailures : HttpFail(i, f)))
        /\ WF_vars(BackoffElapsed(i))

\* The calls the liveness check starts: a throwing and a swallowing
\* operation, one argument.
LiveOperations == {"scrape", "deepResearch"}

LiveNext ==
    \/ \E i \in Invocations, op \in LiveOperations : Call(i, op, "u1", <<>>)
    \/ \E i \in Invocations, body \in ResponseBodies : HttpSucceed(i, body)
    \/ \E i \in Invocations, f \in HttpFailures : HttpFail(i, f)
    \/ \E i \in Invocations : BackoffElapsed(i)
    \/ \E i \in Invocations : Finish(i)

SpecLive == Init /\ [][LiveNext]_vars /\ Fairness

Running(i) == inv[i].pc \in {"http", "backoff"}

\* C25: once a call of executeRequest has begun it finishes: it returns a
\* payload or raises an error, after at most maxRetries + 1 network
\* attempts, whatever the outcomes of its attempts are.
C25_AlwaysFinishes ==
    /\ \A i \in Invocations : Running(i) ~> (inv[i].pc \in Settled)
    /\ [](\A i \in Invocations : inv[i].attempts <= maxRetries + 1)

\* C25, the case: a call has raised its error after four failed attempts.
C25_Witness ==
    \E i \in Invocations :
        inv[i].pc = "thrown" /\ inv[i].attempts = 4 /\ inv[i].retries = 3

\* C26: a failed attempt whose HTTP status is 500 or above is classified
\* SERVER, and it ends the call only when no retry is left.
C26_ServerErrorsRetried ==
    \A i \in Invocations :
        (inv[i].lastError # NoError /\ inv[i].lastError.statusCode >= 500) =>
            /\ inv[i].lastError.type = "server"
            /\ inv[i].execError = inv[i].lastError => inv[i].retries = maxRetries

(***************************************************************************)
(* The crawl-status renderings.  A status response is rendered either by   *)
(* the formatter chain (formatContent, whose status formatter is           *)
(* handleCrawlStatus) or by the check-crawl-status tool handler's own      *)
(* formatCrawlStatusContent.  The payloads are status responses whose      *)
(* urls and errors listings run past both preview counts.                  *)
(***************************************************************************)
maxUrlsToShow == 10

maxErrorsToShow == 5

MaxUrls == 12

MaxErrors == 7

StatusUrl(i) == "https://example.com/p" \o ToString(i) \o "/"

StatusErrorMessage(i) == "failure #" \o ToString(i) \o "!"

StatusError(i) ==
    Obj2("url", JStr("https://example.com/e" \o ToString(i) \o "/"),
         "message", JStr(StatusErrorMessage(i)))

StatusPayload(n, m) ==
    JObj(<< <<"id", JStr("job-1")>>, <<"status", JStr("running")>> >>
         \o (IF n > 0 THEN << <<"urls", JArr([i \in 1..n |-> JStr(StatusUrl(i))])>> >>
             ELSE <<>>)
         \o (IF m > 0 THEN << <<"errors", JArr([i \in 1..m |-> StatusError(i)])>> >>
             ELSE <<>>))

StatusPayloads == {StatusPayload(n, m) : n \in 0..MaxUrls, m \in 0..MaxErrors}

\* slice(0, max)
Slice(a, max) == SubSeq(a, 1, IF Len(a) < max THEN Len(a) ELSE max)

\* formatCrawlStatusContent, for responses without progress, dates, stats
\* (those branches append nothing for the payloads above).
formatCrawlStatusContent(content) ==
    LET id == Get(content, "id")
        status == Get(content, "status")
        urls == Get(content, "urls")
        errors == Get(content, "errors")
        resultsUrl == Get(content, "resultsUrl")
        hasUrls == Truthy(urls) /\ urls.t = "arr" /\ Len(urls.a) > 0
        hasErrors == Truthy(errors) /\ errors.t = "arr" /\ Len(errors.a) > 0
        urlsToShow == Slice(urls.a, maxUrlsToShow)
        errorsToShow == Slice(errors.a, maxErrorsToShow)
        urlLine(url, index) ==
            IF url.t = "str" THEN ToString(index) \o ". " \o url.s
            ELSE IF TypeofObject(url) /\ Truthy(Get(url, "url"))
                 THEN ToString(index) \o ". " \o ToStr(Get(url, "url")) \o " (" \o
                      ToStr(OrElse(Get(url, "status"), JStr("unknown status"))) \o ")"
            ELSE ToString(index) \o ". Unknown URL format"
        errorLine(error, index) ==
            IF error.t = "str" THEN ToString(index) \o ". " \o error.s
            ELSE IF TypeofObject(error)
                 THEN ToString(index) \o ". " \o
                      ToStr(OrElse(Get(error, "message"), JStr("Unknown error"))) \o " " \o
                      (IF Truthy(Get(error, "url"))
                       THEN "(at " \o ToStr(Get(error, "url")) \o ")" ELSE "")
            ELSE ToString(index) \o ". Unknown error format"
        urlText ==
            IF ~hasUrls THEN ""
            ELSE "\nProcessed URLs:\n"
                 \o JoinStrings([i \in 1..Len(urlsToShow) |-> urlLine(urlsToShow[i], i)], "\n")
                 \o (IF Len(urls.a) > maxUrlsToShow
                     THEN "\n\n...and " \o ToString(Len(urls.a) - maxUrlsToShow)
                          \o " more URLs (total: " \o ToString(Len(urls.a)) \o ")"
                     ELSE "")
        errorText ==
            IF ~hasErrors THEN ""
            ELSE "\n\nErrors:\n"
                 \o JoinStrings([i \in 1..Len(errorsToShow) |->
                                    errorLine(errorsToShow[i], i)], "\n")
                 \o (IF Len(errors.a) > maxErrorsToShow
                     THEN "\n\n...and " \o ToString(Len(errors.a) - maxErrorsToShow)
                          \o " more errors (total: " \o ToString(Len(errors.a)) \o ")"
                     ELSE "")
        textContent ==
            (IF Truthy(id) THEN "Crawl Job ID: " \o ToStr(id) \o "\n\n" ELSE "")
            \o (IF Truthy(status) THEN "Status: " \o ToStr(status) \o "\n" ELSE "")
            \o urlText \o errorText
            \o (IF Truthy(resultsUrl)
                THEN "\n\nResults available at: " \o ToStr(resultsUrl) ELSE "")
    IN IF content.t = "arr" /\ EveryMcp(content.a) = "throw" THEN Throws
       ELSE IF content.t = "arr" /\ EveryMcp(content.a) = "true" THEN Returns(content.a)
       ELSE IF Truthy(content) /\ TypeofObject(content)
            THEN IF content.t = "arr" THEN Returns(<<MCPContent("text", JStr(""))>>)
                 ELSE IF (hasUrls /\ \E i \in 1..Len(urlsToShow) : urlsToShow[i].t = "null")
                         \/ (hasErrors /\ \E i \in 1..Len(errorsToShow) :
                                              errorsToShow[i].t = "null")
                      THEN Throws
                 ELSE Returns(<<MCPContent("text", JStr(textContent))>>)
       ELSE Returns(<<MCPContent("text", JStr(JsonPretty(content, "")))>>)

\* handleCrawl4aiCheckCrawlStatus formatting the adapter's response
RenderStatus ==
    /\ ~nresult.ran
    /\ nresult' = [threw |-> formatCrawlStatusContent(npayload).threw,
                   blocks |-> formatCrawlStatusContent(npayload).blocks, ran |-> TRUE,
                   by |-> "formatCrawlStatusContent"]
    /\ UNCHANGED <<npayload, execVars, cls, hnd, auxVars>>

StatusInit ==
    /\ ExecInit
    /\ npayload \in StatusPayloads
    /\ nresult = NotRun
    /\ cls = ClsIdle
    /\ hnd = HndIdle
    /\ AuxIdle

StatusNext ==
    \/ Normalize
    \/ RenderStatus

SpecStatus == StatusInit /\ [][StatusNext]_vars

\* the text the caller receives: the blocks' texts, in order
RenderedText == JoinStrings([i \in 1..Len(nresult.blocks) |-> BlockText(nresult.blocks[i])], "\n")

TotalUrls == IF HasKey(npayload, "urls") THEN Len(Get(npayload, "urls").a) ELSE 0

TotalErrors == IF HasKey(npayload, "errors") THEN Len(Get(npayload, "errors").a) ELSE 0

ShownUrls == Cardinality({i \in 1..TotalUrls : Includes(RenderedText, StatusUrl(i))})

ShownErrors == Cardinality({i \in 1..TotalErrors : Includes(RenderedText, StatusErrorMessage(i))})

ListingCapped(shown, total, max, noun) ==
    /\ shown <= max
    /\ shown < total =>
          Includes(RenderedText, "and " \o ToString(total - shown) \o " more " \o noun)

\* C27: in a rendered crawl status, the processed-URL listing shows at most
\* maxUrlsToShow entries and the error listing at most maxErrorsToShow, and a
\* truncated listing's suffix reports exactly total minus shown.
C27_ListingsCapped ==
    nresult.ran =>
        /\ ListingCapped(ShownUrls, TotalUrls, maxUrlsToShow, "URLs")
        /\ ListingCapped(ShownErrors, TotalErrors, maxErrorsToShow, "errors")

\* C27 for the tool handler's own rendering alone, where the caps are applied.
C27_ToolHandlerCapped ==
    (nresult.ran /\ nresult.by = "formatCrawlStatusContent") =>
        /\ ListingCapped(ShownUrls, TotalUrls, maxUrlsToShow, "URLs")
        /\ ListingCapped(ShownErrors, TotalErrors, maxErrorsToShow, "errors")
        /\ ShownUrls = (IF TotalUrls < maxUrlsToShow THEN TotalUrls ELSE maxUrlsToShow)
        /\ ShownErrors = (IF TotalErrors < maxErrorsToShow THEN TotalErrors
                          ELSE maxErrorsToShow)

C27_ToolHandlerTruncates ==
    /\ nresult.by = "formatCrawlStatusContent"
    /\ TotalUrls = 12 /\ ShownUrls = 10
    /\ TotalErrors = 7 /\ ShownErrors = 5
    /\ Includes(RenderedText, "...and 2 more URLs (total: 12)")
    /\ Includes(RenderedText, "...and 2 more errors (total: 7)")

StatusShaped == npayload.t = "obj" /\ HasKey(npayload, "id") /\ HasKey(npayload, "status")

CarriesUrls == Truthy(Get(npayload, "urls")) /\ Get(npayload, "urls").t = "arr"

NullishError ==
    /\ Truthy(Get(npayload, "errors")) /\ Get(npayload, "errors").t = "arr"
    /\ \E i \in 1..Len(Get(npayload, "errors").a) : IsNullish(Get(npayload, "errors").a[i])

StatusSummaryFirst ==
    /\ ~nresult.threw
    /\ Len(nresult.blocks) > 0
    /\ BlockType(nresult.blocks[1]) = JStr("text")
    /\ StartsWith(BlockText(nresult.blocks[1]),
                  "Crawl Job: " \o ToStr(Get(npayload, "id"))
                  \o "\nStatus: " \o ToStr(Get(npayload, "status")))

UrlListOnly ==
    /\ ~nresult.threw
    /\ Len(nresult.blocks) = 1
    /\ BlockType(nresult.blocks[1]) = JStr("text")
    /\ StartsWith(BlockText(nresult.blocks[1]),
                  ToString(Len(Get(npayload, "urls").a)) \o " URL"
                  \o Plural(Len(Get(npayload, "urls").a)) \o " discovered:")

C29_EmptyBodyMessage ==
    (hnd.pc = "done" /\ hnd.body # NoBody /\ ~Truthy(hnd.body)) =>
        hnd.content = <<MCPContent("text", JStr(emptyResponseMessage(hnd.op, hnd.params)))>>

(***************************************************************************)
(* Cache keys of two calls of the retrying adapter: each call is a public  *)
(* method with its url (for extract, its list of urls) and its options.    *)
(***************************************************************************)
UrlLists ==
    {<<"https://a.com/x">>, <<"https://b.com">>, <<"https://a.com/x,https://b.com">>,
     <<"https://a.com/x", "https://b.com">>}

KeyedCalls ==
    {c \in [op : Operations, urls : UrlLists,
            opts : {bag \in OrderedBags : Len(bag) <= 1}] :
        c.op = "extract" \/ Len(c.urls) = 1}

KeyOfCall(c) ==
    IF c.op = "extract" THEN ExtractCacheKey(c.urls, c.opts)
    ELSE CacheKeyOf(c.op, c.urls[1], c.opts)

\* Both calls reach the line that builds their cache key.
BuildKeyPair ==
    /\ ~ck.ran
    /\ ck' = [ck EXCEPT !.ran = TRUE,
                        !.leftKey = KeyOfCall(ck.first),
                        !.rightKey = KeyOfCall(ck.second)]
    /\ UNCHANGED <<execVars, normVars, cls, hnd, srv, tp, th>>

KeyPairInit ==
    /\ ExecInit
    /\ NormIdle
    /\ cls = ClsIdle
    /\ hnd = HndIdle
    /\ srv = SrvIdle
    /\ tp = TpIdle
    /\ th = ThIdle
    /\ ck \in [first : KeyedCalls, second : KeyedCalls,
               leftKey : {NoKey}, rightKey : {NoKey}, ran : {FALSE}]

KeyPairNext == BuildKeyPair

SpecKeyPair == KeyPairInit /\ [][KeyPairNext]_vars

\* C30: two calls that differ in operation or in a parameter value, and that
\* have cache keys, never have the same cache key.
C30_DistinctCallsDistinctKeys ==
    (ck.ran /\ ck.first # ck.second /\ ck.leftKey # NoKey /\ ck.rightKey # NoKey) =>
        ck.leftKey # ck.rightKey

\* C30 for calls of scrape and mapUrls alone, whose keys hold the one url.
C30_SingleUrlKeysDistinct ==
    (ck.ran /\ ck.first # ck.second
        /\ ck.first.op \in {"scrape", "mapUrls"}
        /\ ck.second.op \in {"scrape", "mapUrls"}) =>
        ck.leftKey # ck.rightKey

====
